---- MODULE Spec2Model ----
(***************************************************************************)
(* A model of the rrd crate: the boundary layer between typed Rust values  *)
(* and librrd's argv-style entry points.                                   *)
(*                                                                         *)
(*   Spec         the operation facade (ops::create, ops::update,          *)
(*                ops::fetch, ops::graph, ops::info and the crate-root     *)
(*                functions of lib.rs) over the engine's error channel,    *)
(*                one thread                                               *)
(*   SpecCreate   Archive::new and ops::create, one call, every archive    *)
(*   SpecUpdate   ops::update_all and ops::update, one call, every batch   *)
(*   SpecFetch    ops::fetch and the Data it returns, until it is dropped  *)
(*   SpecThreads  threads that each make one engine call                   *)
(*   SpecInfo     build_info_map, one node at a time                       *)
(*   SpecStrings  util::MaybeNullTerminatedArrayOfStrings                  *)
(*   SpecData     data::Data, its rows and their cells                     *)
(***************************************************************************)
EXTENDS Integers, Sequences, FiniteSets, TLC

VARIABLES
    rrd_error,  \* the engine's process-wide error string: NULL or a text
    ncalls,     \* operations started so far; the n-th call's text is n
    ffi,        \* foreign calls made by the latest operation, in order
    last,       \* the latest operation: its name, input and return value
    held,       \* the Data values the caller holds, oldest first
    freed,      \* every pointer handed to rrd_freemem so far, in order
    pc,         \* SpecThreads: each thread's position
    tcall,      \* SpecThreads: the engine call each thread makes
    tret,       \* SpecThreads: the value each thread's call returned
    walk,       \* SpecInfo: build_info_map in progress
    arr,        \* SpecStrings: the string array under construction or in use
    live,       \* SpecStrings: the C strings allocated and not released
    released,   \* SpecStrings: every C string released so far, in order
    dat,        \* SpecData: the latest call of Data::new and what it returned
    iter        \* SpecData: the RowsIter in use and the rows it has yielded

facadeVars == <<rrd_error, ncalls, ffi, last>>
fetchVars == <<held, freed>>
threadVars == <<pc, tcall, tret>>
stringVars == <<arr, live, released>>
dataVars == <<dat, iter>>
vars == <<rrd_error, ncalls, ffi, last, held, freed, pc, tcall, tret, walk, arr,
          live, released, dat, iter>>

----------------------------------------------------------------------------
(* Bounds *)

MaxOps == 2        \* operations in one behaviour of Spec
MaxBatches == 3    \* update batches in one call
MaxPoints == 2     \* data points in one batch
MaxXff == 2        \* x-files factors range over -MaxXff/XffDen .. 1 + MaxXff/XffDen

MaxThreads == 2    \* threads in one behaviour of SpecThreads
MaxNodes == 3      \* nodes of a foreign info list
MaxStrings == 3    \* strings handed to one string array
MaxNames == 2      \* data sources one fetch reports

XffDen == 2        \* x-files factors are multiples of 1/XffDen
PtrStride == 8     \* addresses one engine call may hand out
MaxLen == 6        \* samples in the buffer handed to Data::new

----------------------------------------------------------------------------
(* Values *)

NULL == 0
None == [kind |-> "None", text |-> NULL]
Ok == [kind |-> "Ok", text |-> NULL]
NulError == [kind |-> "NulError", text |-> NULL]
PathEncodingError == [kind |-> "PathEncodingError", text |-> NULL]
LibRrdError(string) == [kind |-> "LibRrdError", text |-> string]
Internal == [kind |-> "Internal", text |-> NULL]
InvalidArgument == [kind |-> "InvalidArgument", text |-> NULL]
Panic == [kind |-> "Panic", text |-> NULL]

\* The text a dangling read produces: none of the texts any call set.
Garbage == 0 - 1

\* A host string is modelled by what the conversions look at.
StrQ == {"ok", "nul"}
PathQ == {"ok", "nul", "nonutf8"}

\* A conversion that accepts every path
path_to_str_lossy(p) == Ok

\* util::path_to_str: a path that is not UTF-8 has no &str.
path_to_str(p) == IF p = "nonutf8" THEN PathEncodingError ELSE Ok

\* CString::new: a string with an interior NUL has no C string.
CString_new(s) == IF s = "nul" THEN NulError ELSE Ok

\* CString::new(path_to_str(p)?)?
PathToCString(p) == IF path_to_str(p) # Ok THEN path_to_str(p) ELSE CString_new(p)

\* The first error of a sequence of results, Ok when there is none: what
\* collect::<Result<_, _>>() and a chain of ? return.
FirstErr(rs) ==
    IF \A i \in 1..Len(rs) : rs[i] = Ok THEN Ok
    ELSE rs[CHOOSE i \in 1..Len(rs) :
                /\ rs[i] # Ok
                /\ \A j \in 1..(i - 1) : rs[j] = Ok]

SeqsUpTo(S, n) == UNION {[1..k -> S] : k \in 0..n}

----------------------------------------------------------------------------
(* The engine's side of the boundary.  m = [err, ffi] is the process-wide  *)
(* error string and the trace of foreign calls of the running operation.   *)

Foreign(m, fn, argv, ret, err) ==
    [err |-> err, ffi |-> Append(m.ffi, [fn |-> fn, argv |-> argv, ret |-> ret])]

\* What an engine entry point may do: return 0, or return non-zero with or
\* without leaving a text in the error string.
UbChoices == {"crash", "garbage"}

Outcomes ==
    {[rc |-> 0, sets |-> FALSE, ub |-> "crash"]}
        \cup {[rc |-> r, sets |-> b, ub |-> "crash"] : r \in {0 - 1, 1}, b \in BOOLEAN}

\* The same, with what a read through a null pointer does in this run
RootOutcomes ==
    {[rc |-> 0, sets |-> FALSE, ub |-> "crash"]}
        \cup {[rc |-> r, sets |-> b, ub |-> u] :
                  r \in {0 - 1, 1}, b \in BOOLEAN, u \in UbChoices}

\* An entry point called as the id-th operation: a failing call that reports
\* sets the error string to its own text.
EngineEntry(m, fn, argv, out, id) ==
    Foreign(m, fn, argv, out.rc, IF out.sets THEN id ELSE m.err)

rrd_get_error(m) == Foreign(m, "rrd_get_error", <<>>, m.err, m.err)

rrd_clear_error(m) == Foreign(m, "rrd_clear_error", <<>>, NULL, NULL)

EntryPoints ==
    {"rrd_create_r2", "rrd_updatex_r", "rrd_fetch_r", "rrd_graph_v", "rrd_graph",
     "rrd_info_r"}

----------------------------------------------------------------------------
(* error.rs *)

get_rrd_error(m) ==
    LET p == m.err
        m1 == rrd_get_error(m)
    IN  IF p = NULL THEN [ret |-> None, m |-> m1]
        ELSE [ret |-> LibRrdError(p), m |-> rrd_clear_error(m1)]

return_code_to_result_eager(rc, m) ==
    LET g == get_rrd_error(m)
    IN  IF rc = 0 THEN [ret |-> Ok, m |-> g.m]
        ELSE IF g.ret = None THEN [ret |-> Internal, m |-> g.m] ELSE g

return_code_to_result(rc, m) ==
    IF rc = 0 THEN [ret |-> Ok, m |-> m]
    ELSE LET g == get_rrd_error(m)
         IN  IF g.ret = None THEN [ret |-> Internal, m |-> g.m] ELSE g

\* An operation that stops before any foreign call.
Early(e, m) == [ret |-> e, m |-> m]

----------------------------------------------------------------------------
(* ops/create.rs *)

NaN == <<"nan">>
Num(n) == <<"num", n>>
XffInputs == {NaN} \cup {Num(n) : n \in (0 - MaxXff)..(XffDen + MaxXff)}

\* (0.0_f64..1.0_f64).contains(&f): no comparison with a NaN is true.
InUnitRange(f) == f # NaN /\ 0 <= f[2] /\ f[2] < XffDen

InUnitRangeInclusive(f) == f # NaN /\ 0 <= f[2] /\ f[2] <= XffDen

Archive_new_inclusive(cf, f, steps, rows) ==
    IF InUnitRangeInclusive(f)
    THEN [ret |-> Ok,
          archive |-> [consolidation_fn |-> cf, xfiles_factor |-> f,
                       steps |-> steps, rows |-> rows]]
    ELSE [ret |-> InvalidArgument, archive |-> NULL]

Archive_new(cf, f, steps, rows) ==
    IF InUnitRange(f)
    THEN [ret |-> Ok,
          archive |-> [consolidation_fn |-> cf, xfiles_factor |-> f,
                       steps |-> steps, rows |-> rows]]
    ELSE [ret |-> InvalidArgument, archive |-> NULL]

\* Archive::as_arg_string, field by field
Archive_as_arg_string(a) ==
    <<"RRA", a.consolidation_fn, a.xfiles_factor, a.steps, a.rows>>

\* DataSource::as_arg_string: the DS token carries the name's bytes
DataSource_as_arg_string(q) == <<"DS", q>>

ConsolidationFns == {"AVERAGE", "MIN", "MAX", "LAST"}

\* Archive's fields are private: the only Archive values are those
\* Archive::new returned.
ArchiveValues(cfs) ==
    {r.archive : r \in {x \in {Archive_new(cf, f, 1, 10) : cf \in cfs, f \in XffInputs} :
                            x.ret = Ok}}

create(in, out, id, m) ==
    LET sources == FirstErr([i \in 1..Len(in.sources) |-> PathToCString(in.sources[i])])
        filename == PathToCString(in.filename)
        template == IF in.template = "none" THEN Ok ELSE PathToCString(in.template)
        tokens == [i \in 1..Len(in.data_sources) |->
                       DataSource_as_arg_string(in.data_sources[i])]
                  \o [i \in 1..Len(in.round_robin_archives) |->
                          Archive_as_arg_string(in.round_robin_archives[i])]
        args == FirstErr([i \in 1..Len(in.data_sources) |->
                              CString_new(in.data_sources[i])])
    IN  IF sources # Ok THEN Early(sources, m)
        ELSE IF filename # Ok THEN Early(filename, m)
        ELSE IF template # Ok THEN Early(template, m)
        ELSE IF args # Ok THEN Early(args, m)
        ELSE return_code_to_result(
                 out.rc, EngineEntry(m, "rrd_create_r2", tokens, out, id))

----------------------------------------------------------------------------
(* ops/update.rs *)

Now == <<"Now">>
Timestamp(t) == <<"Timestamp", t>>
Unspecified == <<"Unspecified">>
DatumInt(i) == <<"Int", i>>
DatumFloat(f) == <<"Float", f>>

\* The time field and a datum field of a token, as build_datum_args writes them
TimeField(ts) == IF ts = Now THEN <<"N">> ELSE <<"epoch", ts[2]>>
DatumField(d) == IF d = Unspecified THEN <<"U">> ELSE d

\* The token of one batch: the time field, then ':' and a field per datum
BatchToken(b) == <<TimeField(b.ts)>> \o [i \in 1..Len(b.data) |-> DatumField(b.data[i])]

\* Option<usize>
NoLen == <<>>
SomeLen(n) == <<n>>

\* The loop of build_datum_args with expected_len.insert in place of
\* get_or_insert: every batch is compared with its own length.
RECURSIVE DatumArgsFromInsert(_, _, _, _)
DatumArgsFromInsert(batches, i, expected_len, acc) ==
    IF i > Len(batches) THEN [ret |-> Ok, args |-> acc]
    ELSE LET slice == batches[i].data
             expected == SomeLen(Len(slice))
         IN  IF Len(slice) # expected[1]
             THEN [ret |-> InvalidArgument, args |-> <<>>]
             ELSE DatumArgsFromInsert(batches, i + 1, expected,
                                      Append(acc, BatchToken(batches[i])))

\* The closure of build_datum_args applied to the batches from the i-th on:
\* expected_len.get_or_insert(slice.len()) fixes the expected length at the
\* first batch when none was given; collect stops at the first error.
RECURSIVE DatumArgsFrom(_, _, _, _)
DatumArgsFrom(batches, i, expected_len, acc) ==
    IF i > Len(batches) THEN [ret |-> Ok, args |-> acc]
    ELSE LET slice == batches[i].data
             expected == IF expected_len = NoLen THEN SomeLen(Len(slice))
                         ELSE expected_len
         IN  IF Len(slice) # expected[1]
             THEN [ret |-> InvalidArgument, args |-> <<>>]
             ELSE DatumArgsFrom(batches, i + 1, expected,
                                Append(acc, BatchToken(batches[i])))

build_datum_args_insert(batches, expected_len) ==
    DatumArgsFromInsert(batches, 1, expected_len, <<>>)

build_datum_args(batches, expected_len) ==
    DatumArgsFrom(batches, 1, expected_len, <<>>)

update_all(in, out, id, m) ==
    LET filename == PathToCString(in.filename)
        args == build_datum_args(in.data, NoLen)
    IN  IF filename # Ok THEN Early(filename, m)
        ELSE IF args.ret # Ok THEN Early(args.ret, m)
        ELSE return_code_to_result(
                 out.rc, EngineEntry(m, "rrd_updatex_r", args.args, out, id))

\* update with no expected length handed to build_datum_args
update_first_batch(in, out, id, m) ==
    LET filename == PathToCString(in.filename)
        template == FirstErr([i \in 1..Len(in.ds_names) |-> CString_new(in.ds_names[i])])
        args == build_datum_args(in.data, NoLen)
    IN  IF filename # Ok THEN Early(filename, m)
        ELSE IF template # Ok THEN Early(template, m)
        ELSE IF args.ret # Ok THEN Early(args.ret, m)
        ELSE return_code_to_result(
                 out.rc, EngineEntry(m, "rrd_updatex_r", args.args, out, id))

update(in, out, id, m) ==
    LET filename == PathToCString(in.filename)
        template == FirstErr([i \in 1..Len(in.ds_names) |-> CString_new(in.ds_names[i])])
        args == build_datum_args(in.data, SomeLen(Len(in.ds_names)))
    IN  IF filename # Ok THEN Early(filename, m)
        ELSE IF template # Ok THEN Early(template, m)
        ELSE IF args.ret # Ok THEN Early(args.ret, m)
        ELSE return_code_to_result(
                 out.rc, EngineEntry(m, "rrd_updatex_r", args.args, out, id))

----------------------------------------------------------------------------
(* data.rs, ops/fetch.rs *)

\* Engine-allocated memory of the id-th call: the array of name pointers,
\* the sample buffer, and the i-th name string.
NamesPtr(id) == id * PtrStride
DataPtr(id) == id * PtrStride + 1
NamePtr(id, i) == id * PtrStride + 1 + i

rrd_freemem(m, p) == Foreign(m, "rrd_freemem", <<p>>, NULL, m.err)

\* Data::new without its assertion: the row count is rounded down
Data_new_unchecked(start, end, step, names, data) ==
    IF Len(names) = 0 THEN Panic
    ELSE [kind |-> "Ok", text |-> NULL,
          start |-> start, end |-> end, step |-> step, names |-> names,
          data |-> data, row_count |-> data.len \div Len(names)]

\* Data::new: assert_eq!(data.len() % names.len(), 0); a remainder by zero
\* panics as well.
Data_new(start, end, step, names, data) ==
    IF Len(names) = 0 \/ data.len % Len(names) # 0 THEN Panic
    ELSE [kind |-> "Ok", text |-> NULL,
          start |-> start, end |-> end, step |-> step, names |-> names,
          data |-> data, row_count |-> data.len \div Len(names)]

\* The map over the name pointers: copy the i-th name, free it, next.
RECURSIVE FreeNames(_, _, _, _)
FreeNames(m, id, i, ds_count) ==
    IF i > ds_count THEN m
    ELSE FreeNames(rrd_freemem(m, NamePtr(id, i)), id, i + 1, ds_count)

\* What rrd_fetch_r hands back on success
NoFetch == [start |-> 0, end |-> 0, step |-> 0, ds_count |-> 0,
            ds_names |-> NULL, data |-> NULL]
Fetched(id, start, end, step, ds_count) ==
    [start |-> start, end |-> end, step |-> step, ds_count |-> ds_count,
     ds_names |-> NamesPtr(id), data |-> DataPtr(id)]

FetchOutcomes(outs, fetched) ==
    UNION {{[rc |-> o.rc, sets |-> o.sets, ub |-> o.ub, fetched |-> f] :
                f \in IF o.rc = 0 THEN fetched ELSE {NoFetch}} : o \in outs}

\* The rest of fetch with the engine's start kept as it is
fetch_tail_unshifted(out, id, m) ==
    LET e == out.fetched
        start == e.start
        m1 == rrd_freemem(FreeNames(m, id, 1, e.ds_count), e.ds_names)
        names == [i \in 1..e.ds_count |-> <<"name", id, i>>]
        rows == ((e.end - start) \div e.step) + 1
        data == [ptr |-> e.data, len |-> rows * e.ds_count]
        d == Data_new(start, e.end, e.step, names, data)
    IN  IF e.ds_names = NULL \/ e.data = NULL \/ ~(e.step > 0) THEN [ret |-> Panic, m |-> m]
        ELSE IF e.end - start < 0 THEN [ret |-> Panic, m |-> m1]
        ELSE IF d.kind = "Panic" THEN [ret |-> Panic, m |-> rrd_freemem(m1, data.ptr)]
        ELSE [ret |-> d, m |-> m1]

\* fetch from the assertions on: the start moved one step on, the names
\* copied and freed, the rows counted from the moved start, Data::new
fetch_tail(out, id, m) ==
    LET e == out.fetched
        start == e.start + e.step
        m1 == rrd_freemem(FreeNames(m, id, 1, e.ds_count), e.ds_names)
        names == [i \in 1..e.ds_count |-> <<"name", id, i>>]
        rows == ((e.end - start) \div e.step) + 1
        data == [ptr |-> e.data, len |-> rows * e.ds_count]
        d == Data_new(start, e.end, e.step, names, data)
    IN  IF e.ds_names = NULL \/ e.data = NULL \/ ~(e.step > 0) THEN [ret |-> Panic, m |-> m]
        ELSE IF e.end - start < 0 THEN [ret |-> Panic, m |-> m1]
        \* a panic inside Data::new unwinds through the Array it was given
        ELSE IF d.kind = "Panic" THEN [ret |-> Panic, m |-> rrd_freemem(m1, data.ptr)]
        ELSE [ret |-> d, m |-> m1]

fetch(in, out, id, m) ==
    LET filename == PathToCString(in.filename)
        rc == return_code_to_result(
                  out.rc, EngineEntry(m, "rrd_fetch_r", <<>>, out, id))
    IN  IF filename # Ok THEN Early(filename, m)
        ELSE IF rc.ret # Ok THEN rc
        ELSE fetch_tail(out, id, rc.m)

\* A drop that leaves the buffer to the engine
Array_drop_forget(data, m) == m

\* Array::drop, run when the Data that owns the Array is dropped
Array_drop(data, m) == rrd_freemem(m, data.ptr)

----------------------------------------------------------------------------
(* ops/info.rs *)

\* A foreign list is its nodes in link order; a node pointer is the node's
\* position, the head is 1 and the next pointer of the last node is NULL.
ListHead == 1
NextPtr(nodes, p) == IF p < Len(nodes) THEN p + 1 ELSE NULL

KnownTags == {"RD_I_VAL", "RD_I_CNT", "RD_I_STR", "RD_I_INT", "RD_I_BLO"}

\* A node's payload is a number, or the address of engine-owned bytes
ForeignBytes(a) == <<"ptr", a>>

\* CStr::from_ptr(p).to_string_lossy().into_owned() and slice.to_vec(): host
\* memory holding a copy of the bytes at the address
OwnedCopy(p) == <<"bytes", p[2]>>

\* The match on the node's tag: the InfoValue variant that owns a copy of the
\* member of the union the tag selects.
DecodeInfoValue(node) ==
    CASE node.type = "RD_I_VAL" -> <<"Value", node.value>>
      [] node.type = "RD_I_CNT" -> <<"Count", node.value>>
      [] node.type = "RD_I_STR" -> <<"String", OwnedCopy(node.value)>>
      [] node.type = "RD_I_INT" -> <<"Int", node.value>>
      [] node.type = "RD_I_BLO" -> <<"Blob", OwnedCopy(node.value)>>

ReadNode(m, p) == Foreign(m, "read", <<p>>, NULL, m.err)

rrd_info_free(m, p) == Foreign(m, "rrd_info_free", <<p>>, NULL, m.err)

\* build_info_map entered with the head of a list
InfoWalkStart(nodes, m) ==
    [nodes |-> nodes, current |-> ListHead, map |-> <<>>, m |-> m, status |-> "walk"]

\* One step of build_info_map with the list freed as the walk starts
InfoWalkStepFreeFirst(w) ==
    IF w.current # NULL
    THEN LET node == w.nodes[w.current]
             m0 == IF w.current = ListHead THEN rrd_info_free(w.m, ListHead) ELSE w.m
             m1 == ReadNode(m0, w.current)
         IN  IF node.type \notin KnownTags
             THEN [w EXCEPT !.m = m1, !.map = <<>>, !.status = "panicked"]
             ELSE [w EXCEPT !.m = m1,
                            !.map = (node.key :> DecodeInfoValue(node)) @@ w.map,
                            !.current = NextPtr(w.nodes, w.current)]
    ELSE [w EXCEPT !.status = "returned"]

\* One step of build_info_map: a turn of the while loop (read the node the
\* cursor is at, insert its copy, follow next), or, past the last node, the
\* call of rrd_info_free on the head and the return of the map.
InfoWalkStep(w) ==
    IF w.current # NULL
    THEN LET node == w.nodes[w.current]
             m1 == ReadNode(w.m, w.current)
         IN  IF node.type \notin KnownTags
             THEN [w EXCEPT !.m = m1, !.map = <<>>, !.status = "panicked"]
             ELSE [w EXCEPT !.m = m1,
                            !.map = (node.key :> DecodeInfoValue(node)) @@ w.map,
                            !.current = NextPtr(w.nodes, w.current)]
    ELSE [w EXCEPT !.m = rrd_info_free(w.m, ListHead), !.status = "returned"]

RECURSIVE InfoWalkRun(_)
InfoWalkRun(w) == IF w.status # "walk" THEN w ELSE InfoWalkRun(InfoWalkStep(w))

\* build_info_map(info): the whole walk
build_info_map(nodes, m) ==
    LET w == InfoWalkRun(InfoWalkStart(nodes, m))
    IN  IF w.status = "panicked" THEN [ret |-> Panic, m |-> w.m]
        ELSE [ret |-> [kind |-> "Ok", text |-> NULL, map |-> w.map], m |-> w.m]

\* What rrd_info_r and rrd_graph_v hand back: a list on success, NULL else
InfoOutcomes(lists) ==
    UNION {{[rc |-> o.rc, sets |-> o.sets, nodes |-> l] :
                l \in IF o.rc = 0 THEN lists ELSE {<<>>}} : o \in Outcomes}

\* The pointer-returning entry points: NULL stands for failure
EnginePtrEntry(m, fn, argv, out, id) ==
    Foreign(m, fn, argv, IF out.rc = 0 THEN ListHead ELSE NULL,
            IF out.sets THEN id ELSE m.err)

\* get_rrd_error().unwrap(): no error text is fatal
ErrorOrPanic(m) ==
    LET g == get_rrd_error(m)
    IN  IF g.ret = None THEN [ret |-> Panic, m |-> g.m] ELSE g

\* get_rrd_error().unwrap_or_else(|| RrdError::Internal(..))
ErrorOrInternal(m) ==
    LET g == get_rrd_error(m)
    IN  IF g.ret = None THEN [ret |-> Internal, m |-> g.m] ELSE g

info(in, out, id, m) ==
    LET filename == PathToCString(in.filename)
        m1 == EnginePtrEntry(m, "rrd_info_r", <<>>, out, id)
    IN  IF filename # Ok THEN Early(filename, m)
        ELSE IF out.rc # 0 THEN ErrorOrInternal(m1)
        ELSE build_info_map(out.nodes, m1)

----------------------------------------------------------------------------
(* ops/graph/mod.rs, ops/graph/props.rs, ops/graph/elements.rs *)

\* A command token: its text and whether its bytes hold a NUL
Token(text, q) == [text |-> text, q |-> q]

\* An Option that is not a string: None is the empty sequence
Unset == <<>>
Some(v) == <<v>>

\* args.push(text) of a text the wrapper makes itself
Push(args, text) == Append(args, Token(text, "ok"))

\* args.push(s.clone()) of a caller's string: its bytes may hold a NUL
PushString(args, name, q) == Append(args, Token(name, q))

\* args.push("--flag") whatever the field holds
PushFlagAlways(args, b, flag) == Push(args, flag)

\* if flag { args.push("--flag") }
PushFlag(args, b, flag) == IF b THEN Push(args, flag) ELSE args

\* if let Some(n) = o { args.push("--flag"); args.push(format!("{n}")) }
PushOptNum(args, o, flag) ==
    IF Len(o) = 0 THEN args ELSE Push(Push(args, flag), ToString(o[1]))

\* format!("{f}") of an f64, here a number of tenths: 1000 is 100.0 and
\* prints as 100, 11 is 1.1
FmtF64(t) ==
    IF t % 10 = 0 THEN ToString(t \div 10)
    ELSE ToString(t \div 10) \o "." \o ToString(t % 10)

PushOptF64(args, o, flag) ==
    IF Len(o) = 0 THEN args ELSE Push(Push(args, flag), FmtF64(o[1]))

\* if let Some(s) = &o { args.push("--flag"); args.push(s.clone()) }
PushOptString(args, s, flag, name) ==
    IF s = "none" THEN args ELSE PushString(Push(args, flag), name, s)

ImageFormat_append_to(image_format, args) ==
    Push(Push(args, "--imgformat"),
         CASE image_format = "Png" -> "PNG"
           [] image_format = "Svg" -> "SVG"
           [] image_format = "Eps" -> "EPS"
           [] image_format = "Pdf" -> "PDF")

TimeRange_append_to(time_range, args) ==
    LET a1 == PushOptNum(args, time_range.start, "--start")
        a2 == PushOptNum(a1, time_range.end, "--end")
    IN  PushOptNum(a2, time_range.step_seconds, "--step")

\* Labels::append_to
Labels_append_to(labels, args) ==
    LET a1 == PushOptString(args, labels.title, "--title", "title")
    IN  PushOptString(a1, labels.vertical_label, "--vertical-label", "vertical_label")

Size_append_to(size, args) ==
    LET a1 == PushOptNum(args, size.width, "--width")
        a2 == PushOptNum(a1, size.height, "--height")
        a3 == PushFlag(a2, size.only_graph, "--only-graph")
    IN  PushFlag(a3, size.full_size_mode, "--full-size-mode")

Limits_append_to(limits, args) ==
    LET a1 == PushOptF64(args, limits.upper_limit, "--upper-limit")
        a2 == PushOptF64(a1, limits.lower_limit, "--lower-limit")
        a3 == PushFlag(a2, limits.rigid, "--rigid")
        a4 == PushFlag(a3, limits.allow_shrink, "--allow-shrink")
        a5 == IF Len(limits.alt_autoscale) = 0 THEN a4
              ELSE LET aa == limits.alt_autoscale[1]
                       b1 == Push(a4, "--alt-autoscale")
                       b2 == PushOptF64(b1, aa.alt_autoscale_min, "--alt-autoscale-min")
                   IN  PushOptF64(b2, aa.alt_autoscale_max, "--alt-autoscale-max")
    IN  PushFlag(a5, limits.no_grid_fit, "--no-gridfit")

AxisGridTimeUnit_as_arg_str(u) ==
    CASE u = "Second" -> "SECOND"
      [] u = "Minute" -> "MINUTE"
      [] u = "Hour" -> "HOUR"
      [] u = "Day" -> "DAY"
      [] u = "Week" -> "WEEK"
      [] u = "Month" -> "MONTH"
      [] u = "Year" -> "YEAR"

XAxis_append_to(x_axis, args) ==
    LET a1 == IF Len(x_axis.grid) = 0 THEN args
              ELSE LET xag == x_axis.grid[1]
                       b1 == Push(args, "--x-grid")
                   IN  IF xag.kind = "None" THEN Push(b1, "none")
                       ELSE PushString(b1,
                                AxisGridTimeUnit_as_arg_str(xag.base_grid_time)
                                    \o ":" \o ToString(xag.base_grid_step) \o ":"
                                    \o AxisGridTimeUnit_as_arg_str(xag.major_grid_time)
                                    \o ":" \o ToString(xag.major_grid_step) \o ":"
                                    \o AxisGridTimeUnit_as_arg_str(xag.labels_time)
                                    \o ":" \o ToString(xag.labels_step) \o ":"
                                    \o ToString(xag.label_placement) \o ":label_format",
                                xag.label_format)
    IN  PushOptString(a1, x_axis.week_format, "--week-fmt", "week_format")

YAxisFormatter_append_to(f, args) ==
    Push(args, CASE f = "Numeric" -> "numeric"
                 [] f = "Timestamp" -> "timestamp"
                 [] f = "Duration" -> "duration")

YAxis_append_to(y_axis, args) ==
    LET a1 == IF Len(y_axis.grid) = 0 THEN args
              ELSE LET yag == y_axis.grid[1]
                       b1 == Push(args, "--y-grid")
                   IN  IF yag.kind = "None" THEN Push(b1, "none")
                       ELSE Push(b1, ToString(yag.grid_step) \o ":"
                                         \o ToString(yag.label_factor))
        a2 == IF Len(y_axis.formatter) = 0 THEN a1
              ELSE YAxisFormatter_append_to(y_axis.formatter[1],
                                            Push(a1, "--left-axis-formatter"))
        a3 == PushOptString(a2, y_axis.format, "--left-axis-format", "format")
        a4 == PushFlag(a3, y_axis.alt_y_grid, "--alt-y-grid")
        a5 == PushFlag(a4, y_axis.logarithmic, "--logarithmic")
        a6 == IF Len(y_axis.units_exponent) = 0 THEN a5
              ELSE Push(Push(a5, "--units-exponent"),
                        ToString(y_axis.units_exponent[1].exp))
        a7 == PushOptNum(a6, y_axis.units_length, "--units-length")
    IN  IF Len(y_axis.units) = 0 THEN a7
        ELSE Push(Push(a7, "--units"), CASE y_axis.units[1] = "Si" -> "si")

RightYAxis_append_to(rya, args) ==
    LET a1 == Push(Push(args, "--right-axis"),
                   FmtF64(rya.scale) \o ":" \o ToString(rya.shift))
        a2 == PushOptString(a1, rya.label, "--right-axis-label", "label")
        a3 == IF Len(rya.formatter) = 0 THEN a2
              ELSE YAxisFormatter_append_to(rya.formatter[1],
                                            Push(a2, "--right-axis-formatter"))
    IN  PushOptString(a3, rya.format, "--right-axis-format", "format")

Legend_append_to(legend, args) ==
    LET a1 == PushFlag(args, legend.no_legend, "--no-legend")
        a2 == PushFlag(a1, legend.force_rules_legend, "--force-rules-legend")
        a3 == IF Len(legend.legend_position) = 0 THEN a2
              ELSE Push(a2, "--legend-position="
                                \o CASE legend.legend_position[1] = "North" -> "north"
                                     [] legend.legend_position[1] = "South" -> "south"
                                     [] legend.legend_position[1] = "East" -> "east"
                                     [] legend.legend_position[1] = "West" -> "west")
    IN  IF Len(legend.legend_direction) = 0 THEN a3
        ELSE Push(a3, "--legend-direction="
                          \o CASE legend.legend_direction[1] = "TopDown" -> "topdown"
                               [] legend.legend_direction[1] = "BottomUp" -> "bottomup"
                               [] legend.legend_direction[1] = "BottomUp2" -> "bottomup2")

\* {:02X}
HexDigits == <<"0", "1", "2", "3", "4", "5", "6", "7", "8", "9",
               "A", "B", "C", "D", "E", "F">>
Hex2(byte) == HexDigits[(byte \div 16) + 1] \o HexDigits[(byte % 16) + 1]

\* Color::append_to: appends #hex to the string
Color_append_to(color, str) ==
    LET rgb == str \o "#" \o Hex2(color.red) \o Hex2(color.green) \o Hex2(color.blue)
    IN  IF Len(color.alpha) = 0 THEN rgb ELSE rgb \o Hex2(color.alpha[1])

\* for (tag, color) in &self.colors.  A HashMap is modelled by its entries in
\* the order this map iterates them, an order its hasher's keys decide: two
\* maps with the same entries need not have the same.
RECURSIVE ColorsAppendTo(_, _, _)
ColorsAppendTo(colors, i, args) ==
    IF i > Len(colors) THEN args
    ELSE LET tag == colors[i][1]
             str == CASE tag = "Back" -> "BACK"
                      [] tag = "Canvas" -> "CANVAS"
                      [] tag = "ShadeA" -> "SHADEA"
                      [] tag = "ShadeB" -> "SHADEB"
                      [] tag = "Grid" -> "GRID"
                      [] tag = "MGrid" -> "MGRID"
                      [] tag = "Font" -> "FONT"
                      [] tag = "Axis" -> "AXIS"
                      [] tag = "Frame" -> "FRAME"
                      [] tag = "Arrow" -> "ARROW"
         IN  ColorsAppendTo(colors, i + 1,
                 Push(Push(args, "--color"), Color_append_to(colors[i][2], str)))

\* for (tag, font_params) in &self.fonts
RECURSIVE FontsAppendTo(_, _, _)
FontsAppendTo(fonts, i, args) ==
    IF i > Len(fonts) THEN args
    ELSE LET font_params == fonts[i][2]
             tag == CASE fonts[i][1] = "Default" -> "DEFAULT"
                      [] fonts[i][1] = "Title" -> "TITLE"
                      [] fonts[i][1] = "Axis" -> "AXIS"
                      [] fonts[i][1] = "Unit" -> "UNIT"
                      [] fonts[i][1] = "Legend" -> "LEGEND"
                      [] fonts[i][1] = "Watermark" -> "WATERMARK"
             a1 == Push(args, "--font")
         IN  FontsAppendTo(fonts, i + 1,
                 IF font_params.font = "none"
                 THEN Push(a1, tag \o ":" \o ToString(font_params.size))
                 ELSE PushString(a1, tag \o ":" \o ToString(font_params.size) \o ":font",
                                 font_params.font))

FontRenderMode_append_to(frm, args) ==
    Push(Push(args, "--font-render-mode"),
         CASE frm = "Normal" -> "normal"
           [] frm = "Light" -> "light"
           [] frm = "Mono" -> "mono")

GraphRenderMode_append_to(grm, args) ==
    Push(Push(args, "--graph-render-mode"),
         CASE grm = "Normal" -> "normal"
           [] grm = "Mono" -> "mono")

Misc_append_to(misc, args) ==
    LET a1 == ColorsAppendTo(misc.colors, 1, args)
        a2 == IF Len(misc.grid_dash) = 0 THEN a1
              ELSE Push(Push(a1, "--grid-dash"),
                        ToString(misc.grid_dash[1][1]) \o ":"
                            \o ToString(misc.grid_dash[1][2]))
        a3 == PushOptNum(a2, misc.border, "--border")
        a4 == PushFlag(a3, misc.dynamic_labels, "--dynamic-labels")
        a5 == PushOptF64(a4, misc.zoom, "--zoom")
        a6 == FontsAppendTo(misc.fonts, 1, a5)
        a7 == IF Len(misc.font_render_mode) = 0 THEN a6
              ELSE FontRenderMode_append_to(misc.font_render_mode[1], a6)
        a8 == PushOptNum(a7, misc.font_smoothing_threshold, "--font-smoothing-threshold")
        a9 == PushFlag(a8, misc.pango_markup, "--pango-markup")
        a10 == IF Len(misc.graph_render_mode) = 0 THEN a9
               ELSE GraphRenderMode_append_to(misc.graph_render_mode[1], a9)
        a11 == PushFlag(a10, misc.slope_mode, "--slope-mode")
        a12 == PushFlag(a11, misc.interlaced, "--interlaced")
        a13 == PushOptNum(a12, misc.tab_width, "--tabwidth")
        a14 == PushOptNum(a13, misc.base, "--base")
        a15 == PushOptString(a14, misc.watermark, "--watermark", "watermark")
    IN  PushFlag(a15, misc.use_nan_for_all_missing_data,
                 "--use-nan-for-all-missing-data")

\* GraphProps::append_to with the size ahead of the labels
GraphProps_append_to_size_first(props, args) ==
    LET a1 == TimeRange_append_to(props.time_range, args)
        a2 == Size_append_to(props.size, a1)
        a3 == Labels_append_to(props.labels, a2)
        a4 == Limits_append_to(props.limits, a3)
        a5 == XAxis_append_to(props.x_axis, a4)
        a6 == YAxis_append_to(props.y_axis, a5)
        a7 == IF Len(props.right_y_axis) = 0 THEN a6
              ELSE RightYAxis_append_to(props.right_y_axis[1], a6)
        a8 == Legend_append_to(props.legend, a7)
    IN  Misc_append_to(props.misc, a8)

\* GraphProps::append_to: the groups in their fixed order
GraphProps_append_to(props, args) ==
    LET a1 == TimeRange_append_to(props.time_range, args)
        a2 == Labels_append_to(props.labels, a1)
        a3 == Size_append_to(props.size, a2)
        a4 == Limits_append_to(props.limits, a3)
        a5 == XAxis_append_to(props.x_axis, a4)
        a6 == YAxis_append_to(props.y_axis, a5)
        a7 == IF Len(props.right_y_axis) = 0 THEN a6
              ELSE RightYAxis_append_to(props.right_y_axis[1], a6)
        a8 == Legend_append_to(props.legend, a7)
    IN  Misc_append_to(props.misc, a8)

\* GraphProps::default()
DefaultProps ==
    [time_range |-> [start |-> Unset, end |-> Unset, step_seconds |-> Unset],
     labels |-> [title |-> "none", vertical_label |-> "none"],
     size |-> [width |-> Unset, height |-> Unset, full_size_mode |-> FALSE,
               only_graph |-> FALSE],
     limits |-> [upper_limit |-> Unset, lower_limit |-> Unset, rigid |-> FALSE,
                 allow_shrink |-> FALSE, alt_autoscale |-> Unset,
                 no_grid_fit |-> FALSE],
     x_axis |-> [grid |-> Unset, week_format |-> "none"],
     y_axis |-> [grid |-> Unset, formatter |-> Unset, format |-> "none",
                 alt_y_grid |-> FALSE, logarithmic |-> FALSE,
                 units_exponent |-> Unset, units_length |-> Unset, units |-> Unset],
     right_y_axis |-> Unset,
     legend |-> [no_legend |-> FALSE, force_rules_legend |-> FALSE,
                 legend_position |-> Unset, legend_direction |-> Unset],
     misc |-> [colors |-> <<>>, grid_dash |-> Unset, border |-> Unset,
               dynamic_labels |-> FALSE, zoom |-> Unset, fonts |-> <<>>,
               font_render_mode |-> Unset, font_smoothing_threshold |-> Unset,
               pango_markup |-> FALSE, graph_render_mode |-> Unset,
               slope_mode |-> FALSE, interlaced |-> FALSE, tab_width |-> Unset,
               base |-> Unset, watermark |-> "none",
               use_nan_for_all_missing_data |-> FALSE]]

\* GraphElement::append_to: a Def renders its rrd path with path_to_str, every
\* other element writes its own strings into one token.
GraphElement_append_to(c) ==
    IF c.kind = "Def" /\ path_to_str(c.q) # Ok
    THEN [ret |-> path_to_str(c.q), args |-> <<>>]
    ELSE [ret |-> Ok, args |-> <<Token(c.kind, c.q)>>]

RECURSIVE ElementsAppendTo(_, _, _)
ElementsAppendTo(elements, i, args) ==
    IF i > Len(elements) THEN [ret |-> Ok, args |-> args]
    ELSE LET r == GraphElement_append_to(elements[i])
         IN  IF r.ret # Ok THEN [ret |-> r.ret, args |-> args]
             ELSE ElementsAppendTo(elements, i + 1, args \o r.args)

\* extract_info_value: remove the key, then ask for the expected variant
extract_info_value(map, key, variant) ==
    IF key \notin DOMAIN map THEN [ret |-> Internal, map |-> map]
    ELSE LET rest == [k \in DOMAIN map \ {key} |-> map[k]]
         IN  IF map[key][1] # variant THEN [ret |-> Internal, map |-> rest]
             ELSE [ret |-> Ok, value |-> map[key][2], map |-> rest]

\* The keys graph() pulls out of the map map, in the order it does
GraphKeys ==
    <<<<"image", "Blob">>, <<"graph_left", "Count">>, <<"graph_top", "Count">>,
      <<"graph_width", "Count">>, <<"graph_height", "Count">>,
      <<"image_width", "Count">>, <<"image_height", "Count">>,
      <<"graph_start", "Count">>, <<"graph_end", "Count">>,
      <<"value_min", "Value">>, <<"value_max", "Value">>>>

\* Counts are scaled down: of the counts 0..U64Max the engine can report,
\* those above I64Max have no i64 and those above ChronoMax no Timestamp.
ChronoMax == 12
I64Max == 14
U64Max == 15

\* Timestamp::from_timestamp(t.try_into().expect(..), 0).expect(..)
CountToTimestamp(t) ==
    IF t[2] > I64Max THEN Panic
    ELSE IF t[2] > ChronoMax THEN Panic
    ELSE Ok

TimeKeys == {"graph_start", "graph_end"}

\* The extract_info_value calls of graph() from the i-th on, and the result.
\* A count taken out for graph_start or graph_end is turned into a Timestamp
\* on the spot.
RECURSIVE ExtractAll(_, _, _)
ExtractAll(map, i, got) ==
    IF i > Len(GraphKeys)
    THEN [kind |-> "Ok", text |-> NULL, fields |-> got, extra_info |-> map]
    ELSE LET r == extract_info_value(map, GraphKeys[i][1], GraphKeys[i][2])
         IN  IF r.ret # Ok THEN r.ret
             ELSE IF GraphKeys[i][1] \in TimeKeys /\ CountToTimestamp(r.value) # Ok
             THEN Panic
             ELSE ExtractAll(r.map, i + 1, (GraphKeys[i][1] :> r.value) @@ got)

DefKinds == {"Def"}
VisualKinds == {"Print", "GPrint", "Line", "Area"}

\* RrdError::InvalidArgument with the text it carries
InvalidArgumentOf(msg) == [kind |-> "InvalidArgument", text |-> NULL, msg |-> msg]
NoDefError == InvalidArgumentOf("Must have at least one Def element")
NoVisualError ==
    InvalidArgumentOf("Must have at least one Line, Area, GPrint, or Print element")

\* graph with the test for a visual element made first
graph_visual_first(in, out, id, m) ==
    LET elements == in.elements
        head == GraphProps_append_to(in.props,
                    ImageFormat_append_to(in.image_format,
                        <<Token("graphv", "ok"), Token("-", "ok")>>))
        appended == ElementsAppendTo(elements, 1, head)
        args == FirstErr([i \in 1..Len(appended.args) |->
                              CString_new(appended.args[i].q)])
        m1 == EnginePtrEntry(m, "rrd_graph_v", appended.args, out, id)
        built == build_info_map(out.nodes, m1)
    IN  IF ~(\E i \in 1..Len(elements) : elements[i].kind \in VisualKinds)
        THEN Early(NoVisualError, m)
        ELSE IF ~(\E i \in 1..Len(elements) : elements[i].kind \in DefKinds)
        THEN Early(NoDefError, m)
        ELSE IF appended.ret # Ok THEN Early(appended.ret, m)
        ELSE IF args # Ok THEN Early(args, m)
        ELSE IF out.rc # 0 THEN ErrorOrInternal(m1)
        ELSE IF built.ret.kind = "Panic" THEN built
        ELSE [ret |-> ExtractAll(built.ret.map, 1, <<>>), m |-> built.m]


graph(in, out, id, m) ==
    LET elements == in.elements
        head == GraphProps_append_to(in.props,
                    ImageFormat_append_to(in.image_format,
                        <<Token("graphv", "ok"), Token("-", "ok")>>))
        appended == ElementsAppendTo(elements, 1, head)
        args == FirstErr([i \in 1..Len(appended.args) |->
                              CString_new(appended.args[i].q)])
        m1 == EnginePtrEntry(m, "rrd_graph_v", appended.args, out, id)
        built == build_info_map(out.nodes, m1)
    IN  IF ~(\E i \in 1..Len(elements) : elements[i].kind \in DefKinds)
        THEN Early(NoDefError, m)
        ELSE IF ~(\E i \in 1..Len(elements) : elements[i].kind \in VisualKinds)
        THEN Early(NoVisualError, m)
        ELSE IF appended.ret # Ok THEN Early(appended.ret, m)
        ELSE IF args # Ok THEN Early(args, m)
        ELSE IF out.rc # 0 THEN ErrorOrInternal(m1)
        ELSE IF built.ret.kind = "Panic" THEN built
        ELSE [ret |-> ExtractAll(built.ret.map, 1, <<>>), m |-> built.m]

----------------------------------------------------------------------------
(* lib.rs: the crate-root functions *)

\* get_error: reads the error string and leaves it in place.  Reading
\* through a null pointer is undefined: the build may crash or copy whatever
\* bytes are there.
get_error(m, ub) ==
    LET m1 == rrd_get_error(m)
    IN  IF m.err # NULL THEN [ret |-> LibRrdError(m.err), m |-> m1]
        ELSE IF ub = "crash" THEN [ret |-> Panic, m |-> m1]
        ELSE [ret |-> LibRrdError(Garbage), m |-> m1]

\* match rc { 0 => Ok(()), _ => Err(RrdError::LibRrdError(get_error())) }
RootResult(rc, m, ub) == IF rc = 0 THEN [ret |-> Ok, m |-> m] ELSE get_error(m, ub)

root_create(in, out, id, m) ==
    LET filename == PathToCString(in.filename)
        paths == FirstErr([i \in 1..Len(in.sources) |-> path_to_str(in.sources[i])])
        sources == FirstErr([i \in 1..Len(in.sources) |-> CString_new(in.sources[i])])
        template == IF in.template = "none" THEN Ok ELSE PathToCString(in.template)
        args == FirstErr([i \in 1..Len(in.args) |-> CString_new(in.args[i])])
        tokens == [i \in 1..Len(in.args) |-> Token("arg", in.args[i])]
    IN  IF filename # Ok THEN Early(filename, m)
        ELSE IF paths # Ok THEN Early(paths, m)
        ELSE IF sources # Ok THEN Early(sources, m)
        ELSE IF template # Ok THEN Early(template, m)
        ELSE IF args # Ok THEN Early(args, m)
        ELSE RootResult(out.rc, EngineEntry(m, "rrd_create_r2", tokens, out, id),
                        out.ub)

root_update(in, out, id, m) ==
    LET filename == PathToCString(in.filename)
        template == IF in.template = "none" THEN Ok ELSE PathToCString(in.template)
        args == FirstErr([i \in 1..Len(in.args) |-> CString_new(in.args[i])])
        tokens == [i \in 1..Len(in.args) |-> Token("arg", in.args[i])]
    IN  IF filename # Ok THEN Early(filename, m)
        ELSE IF template # Ok THEN Early(template, m)
        ELSE IF args # Ok THEN Early(args, m)
        ELSE RootResult(out.rc, EngineEntry(m, "rrd_updatex_r", tokens, out, id),
                        out.ub)

\* The crate-root fetch keeps the engine's start and does no checks of its own
root_fetch_tail(out, id, m) ==
    LET e == out.fetched
        m1 == rrd_freemem(FreeNames(m, id, 1, e.ds_count), e.ds_names)
        names == [i \in 1..e.ds_count |-> <<"name", id, i>>]
        rows == ((e.end - e.start) \div e.step) + 1
        data == [ptr |-> e.data, len |-> rows * e.ds_count]
        d == Data_new(e.start, e.end, e.step, names, data)
    IN  IF d.kind = "Panic" THEN [ret |-> Panic, m |-> rrd_freemem(m1, data.ptr)]
        ELSE [ret |-> d, m |-> m1]

root_fetch(in, out, id, m) ==
    LET filename == PathToCString(in.filename)
        cf == CString_new(in.cf)
        m1 == EngineEntry(m, "rrd_fetch_r", <<>>, out, id)
    IN  IF filename # Ok THEN Early(filename, m)
        ELSE IF cf # Ok THEN Early(cf, m)
        ELSE IF out.rc # 0 THEN get_error(m1, out.ub)
        ELSE root_fetch_tail(out, id, m1)

\* The crate-root graph unwraps its conversions: a NUL is a panic
root_graph(in, out, id, m) ==
    LET c_filename == CString_new(in.filename)
        arg_ptrs == FirstErr([i \in 1..Len(in.args) |-> CString_new(in.args[i])])
        argv == <<Token("rrd_graph", "ok"), Token("filename", in.filename)>>
                    \o [i \in 1..Len(in.args) |-> Token("arg", in.args[i])]
    IN  IF c_filename # Ok THEN Early(Panic, m)
        ELSE IF arg_ptrs # Ok THEN Early(Panic, m)
        ELSE RootResult(out.rc, EngineEntry(m, "rrd_graph", argv, out, id), out.ub)

----------------------------------------------------------------------------
(* The operation facade as a state machine.  One action per public         *)
(* function: the caller picks the arguments, the engine picks its answer.  *)

NoOut == [rc |-> 0, sets |-> FALSE, ub |-> "crash"]

\* The state an operation leaves behind
Returned(op, in, out, r) ==
    /\ ncalls' = ncalls + 1
    /\ rrd_error' = r.m.err
    /\ ffi' = r.m.ffi
    /\ last' = [op |-> op, in |-> in, out |-> out, ret |-> r.ret,
                before |-> rrd_error]

\* The operation F called with input in.  The engine's answer is drawn only
\* when F reaches a foreign call.
Call(op, F(_, _, _, _), in, outs) ==
    LET m0 == [err |-> rrd_error, ffi |-> <<>>]
        id == ncalls + 1
        r0 == F(in, CHOOSE o \in outs : TRUE, id, m0)
    IN  /\ ncalls < MaxOps
        /\ IF r0.m.ffi = <<>> THEN Returned(op, in, NoOut, r0)
           ELSE \E out \in outs : Returned(op, in, out, F(in, out, id, m0))

NoOp == [op |-> "none", in |-> <<>>, out |-> NoOut, ret |-> Ok, before |-> NULL]

InitFacade ==
    /\ rrd_error = NULL
    /\ ncalls = 0
    /\ ffi = <<>>
    /\ last = NoOp

InitFetch ==
    /\ held = <<>>
    /\ freed = <<>>

InitThreads ==
    /\ pc = <<>>
    /\ tcall = <<>>
    /\ tret = <<>>

NoWalk == [status |-> "none"]
InitInfo == walk = NoWalk

NoArray == [state |-> "none"]
InitStrings ==
    /\ arr = NoArray
    /\ live = {}
    /\ released = <<>>

NoData == [state |-> "none"]
NoIter == [state |-> "none"]
InitData ==
    /\ dat = NoData
    /\ iter = NoIter

\* What the operations of the facade that hand out no memory leave alone
FacadeFrame == UNCHANGED <<fetchVars, threadVars, walk, stringVars, dataVars>>

\* The pointers a trace hands to rrd_freemem, in order
RECURSIVE FreedBy(_)
FreedBy(trace) ==
    IF trace = <<>> THEN <<>>
    ELSE IF trace[1].fn = "rrd_freemem"
         THEN <<trace[1].argv[1]>> \o FreedBy(Tail(trace))
         ELSE FreedBy(Tail(trace))

\* The caller keeps the Data a fetch returned
Keeps ==
    /\ held' = IF last'.ret.kind = "Ok" THEN Append(held, last'.ret) ELSE held
    /\ freed' = freed \o FreedBy(ffi')

Create(inputs) ==
    /\ \E in \in inputs : Call("create", create, in, Outcomes)
    /\ FacadeFrame

UpdateAll(inputs) ==
    /\ \E in \in inputs : Call("update_all", update_all, in, Outcomes)
    /\ FacadeFrame

Update(inputs) ==
    /\ \E in \in inputs : Call("update", update, in, Outcomes)
    /\ FacadeFrame

Fetch(inputs, fetched) ==
    /\ \E in \in inputs, f \in fetched :
           Call("fetch", fetch, in,
                FetchOutcomes(Outcomes,
                    {Fetched(ncalls + 1, f.start, f.end, f.step, f.ds_count)}))
    /\ Keeps
    /\ UNCHANGED <<threadVars, walk, stringVars, dataVars>>

Info(inputs, lists) ==
    /\ \E in \in inputs : Call("info", info, in, InfoOutcomes(lists))
    /\ FacadeFrame

Graph(inputs, lists) ==
    /\ \E in \in inputs : Call("graph", graph, in, InfoOutcomes(lists))
    /\ FacadeFrame

RootCreate(inputs) ==
    /\ \E in \in inputs : Call("root_create", root_create, in, RootOutcomes)
    /\ FacadeFrame

RootUpdate(inputs) ==
    /\ \E in \in inputs : Call("root_update", root_update, in, RootOutcomes)
    /\ FacadeFrame

RootFetch(inputs, fetched) ==
    /\ \E in \in inputs, f \in fetched :
           Call("root_fetch", root_fetch, in,
                FetchOutcomes(RootOutcomes,
                    {Fetched(ncalls + 1, f.start, f.end, f.step, f.ds_count)}))
    /\ Keeps
    /\ UNCHANGED <<threadVars, walk, stringVars, dataVars>>

RootGraph(inputs) ==
    /\ \E in \in inputs : Call("root_graph", root_graph, in, RootOutcomes)
    /\ FacadeFrame

\* The caller drops the i-th Data it holds: Array::drop runs
DropData ==
    \E i \in 1..Len(held) :
        LET d == held[i]
            m == Array_drop(d.data, [err |-> rrd_error, ffi |-> <<>>])
        IN  /\ held' = [j \in 1..(Len(held) - 1) |-> IF j < i THEN held[j] ELSE held[j + 1]]
            /\ freed' = freed \o FreedBy(m.ffi)
            /\ ffi' = m.ffi
            /\ rrd_error' = m.err
            /\ last' = [op |-> "drop", in |-> d, out |-> NoOut, ret |-> Ok,
                        before |-> rrd_error]
            /\ UNCHANGED <<ncalls, threadVars, walk, stringVars, dataVars>>

\* Archive::new called on its own
ArchiveNew ==
    /\ ncalls < MaxOps
    /\ \E cf \in ConsolidationFns, f \in XffInputs :
           LET r == Archive_new(cf, f, 1, 10)
           IN  last' = [op |-> "Archive_new", in |-> [consolidation_fn |-> cf, xfiles_factor |-> f],
                        out |-> NoOut, ret |-> r.ret, before |-> rrd_error,
                        archive |-> r.archive]
    /\ ncalls' = ncalls + 1
    /\ ffi' = <<>>
    /\ UNCHANGED rrd_error
    /\ FacadeFrame

----------------------------------------------------------------------------
(* Spec: every operation, with every way each fallible argument can fail   *)

AnArchive == CHOOSE a \in ArchiveValues({"AVERAGE"}) : TRUE
ABatch(n) == [ts |-> Now, data |-> [i \in 1..n |-> Unspecified]]
CreateArgs ==
    [filename : PathQ, template : {"none"} \cup PathQ, sources : SeqsUpTo(PathQ, 1),
     data_sources : SeqsUpTo(StrQ, 1), round_robin_archives : {<<AnArchive>>}]
UpdateAllArgs == [filename : PathQ, data : SeqsUpTo({ABatch(0), ABatch(1)}, 2)]
UpdateArgs ==
    [filename : PathQ, ds_names : SeqsUpTo(StrQ, 1),
     data : SeqsUpTo({ABatch(0), ABatch(1)}, 2)]
FetchArgs == [filename : PathQ, cf : {"AVERAGE"}]
AFetched == {[start |-> 0, end |-> 2, step |-> 1, ds_count |-> 1]}
InfoArgs == [filename : PathQ]
AnInfoList ==
    <<[key |-> "filename", type |-> "RD_I_STR", value |-> ForeignBytes(1)],
      [key |-> "step", type |-> "RD_I_CNT", value |-> Num(300)]>>
GraphElements ==
    {[kind |-> "Def", q |-> p] : p \in PathQ}
        \cup {[kind |-> "Line", q |-> p] : p \in StrQ}
        \cup {[kind |-> "Comment", q |-> "ok"]}
GraphArgs ==
    [image_format : {"Png"},
     props : {[DefaultProps EXCEPT !.labels.title = t] : t \in {"none"} \cup StrQ},
     elements : SeqsUpTo(GraphElements, 2)]
AGraphList ==
    [i \in 1..Len(GraphKeys) |->
        [key |-> GraphKeys[i][1],
         type |-> CASE GraphKeys[i][2] = "Blob" -> "RD_I_BLO"
                    [] GraphKeys[i][2] = "Count" -> "RD_I_CNT"
                    [] GraphKeys[i][2] = "Value" -> "RD_I_VAL",
         value |-> IF GraphKeys[i][2] = "Blob" THEN ForeignBytes(i) ELSE Num(i)]]
RootCreateArgs ==
    [filename : PathQ, template : {"none"}, sources : SeqsUpTo({"ok"}, 1),
     args : SeqsUpTo(StrQ, 1)]
RootUpdateArgs == [filename : PathQ, template : {"none", "ok"}, args : SeqsUpTo(StrQ, 1)]
RootFetchArgs == [filename : PathQ, cf : StrQ]
RootGraphArgs == [filename : StrQ, args : SeqsUpTo(StrQ, 1)]

Init == InitFacade /\ InitFetch /\ InitThreads /\ InitInfo /\ InitStrings /\ InitData

Next ==
    \/ Create(CreateArgs)
    \/ UpdateAll(UpdateAllArgs)
    \/ Update(UpdateArgs)
    \/ Fetch(FetchArgs, AFetched)
    \/ Info(InfoArgs, {AnInfoList})
    \/ Graph(GraphArgs, {AGraphList})
    \/ RootCreate(RootCreateArgs)
    \/ RootUpdate(RootUpdateArgs)
    \/ RootFetch(RootFetchArgs, AFetched)
    \/ RootGraph(RootGraphArgs)
    \/ DropData

Spec == Init /\ [][Next]_vars

----------------------------------------------------------------------------
(* Properties of Spec *)

OpsFacade == {"create", "update_all", "update", "fetch", "graph", "info"}
RootFacade == {"root_create", "root_update", "root_fetch", "root_graph"}
ReturnCodeOps == {"create", "update_all", "update", "fetch"}
PtrEntryPoints == {"rrd_info_r", "rrd_graph_v"}

\* The latest operation reached its engine entry point: it is the first
\* foreign call an operation makes
EngineCalled == ffi # <<>> /\ ffi[1].fn \in EntryPoints

\* The latest operation's engine call reported failure
EngineFailed ==
    /\ EngineCalled
    /\ IF ffi[1].fn \in PtrEntryPoints THEN ffi[1].ret = NULL ELSE ffi[1].ret # 0

\* The error string as the engine call of the latest operation left it
TextAtReturn == IF last.out.sets THEN ncalls ELSE last.before

ReadsOrClears ==
    \E i \in 1..Len(ffi) : ffi[i].fn \in {"rrd_get_error", "rrd_clear_error"}

\* C2: return_code_to_result(code) returns success for code 0 without
\* reading or clearing the error string; for a code other than 0 it returns
\* LibRrdError with the current error text and leaves the string cleared, or
\* Internal when there is no error string.
C2_ReturnCodeToResult ==
    (last.op \in ReturnCodeOps /\ EngineCalled) =>
        LET code == ffi[1].ret
        IN  /\ code = 0 =>
                /\ last.ret.kind \notin {"LibRrdError", "Internal"}
                /\ last.op # "fetch" => last.ret = Ok
                /\ ~ReadsOrClears
                /\ rrd_error = TextAtReturn
            /\ (code # 0 /\ TextAtReturn # NULL) =>
                /\ last.ret = LibRrdError(TextAtReturn)
                /\ rrd_error = NULL
            /\ (code # 0 /\ TextAtReturn = NULL) =>
                /\ last.ret = Internal
                /\ rrd_error = NULL

\* A failing engine call that set a text, turned into LibRrdError
C2_Witness ==
    /\ last.op \in ReturnCodeOps
    /\ EngineCalled
    /\ ffi[1].ret # 0
    /\ last.out.sets
    /\ last.ret = LibRrdError(ncalls)
    /\ rrd_error = NULL

\* C3: in a single-threaded sequence of calls, a failing call returns the
\* text the engine set during that call, and after every failing call the
\* error string is empty.
C3_NoStaleError ==
    (last.op \in OpsFacade \cup RootFacade /\ EngineFailed) =>
        /\ rrd_error = NULL
        /\ last.ret.kind = "LibRrdError" => last.ret.text = ncalls

\* An argument that has no C string
BadPath(p) == p \in {"nul", "nonutf8"}
HasNul(strs) == \E i \in 1..Len(strs) : strs[i] = "nul"

\* The latest operation was given an argument that fails an encoding check
\* or a precondition the operation enforces itself
BadArgs ==
    LET in == last.in
    IN  CASE last.op = "create" ->
               \/ \E i \in 1..Len(in.sources) : BadPath(in.sources[i])
               \/ BadPath(in.filename)
               \/ (in.template # "none" /\ BadPath(in.template))
               \/ HasNul(in.data_sources)
          [] last.op = "update_all" ->
               \/ BadPath(in.filename)
               \/ \E i, j \in 1..Len(in.data) :
                      Len(in.data[i].data) # Len(in.data[j].data)
          [] last.op = "update" ->
               \/ BadPath(in.filename)
               \/ HasNul(in.ds_names)
               \/ \E i \in 1..Len(in.data) : Len(in.data[i].data) # Len(in.ds_names)
          [] last.op \in {"fetch", "info"} -> BadPath(in.filename)
          [] last.op = "graph" ->
               \/ \A i \in 1..Len(in.elements) : in.elements[i].kind # "Def"
               \/ \A i \in 1..Len(in.elements) : in.elements[i].kind \notin VisualKinds
               \/ \E i \in 1..Len(in.elements) :
                      in.elements[i].kind = "Def" /\ in.elements[i].q = "nonutf8"
               \/ \E i \in 1..Len(in.elements) : in.elements[i].q = "nul"
               \/ in.props.labels.title = "nul"
          [] OTHER -> FALSE

\* C4: create, update, update_all, fetch, graph and info return the error of
\* a failed encoding check or local precondition without the engine entry
\* point having been invoked in that call.
C4_ErrorsBeforeForeignCall ==
    (last.op \in OpsFacade /\ BadArgs) =>
        /\ ffi = <<>>
        /\ last.ret \in {NulError, PathEncodingError, InvalidArgument, NoDefError,
                        NoVisualError}
        /\ rrd_error = last.before

\* A path that is not UTF-8 stopped an operation
C4_Witness ==
    /\ last.op \in OpsFacade
    /\ BadArgs
    /\ last.ret = PathEncodingError
    /\ ffi = <<>>

----------------------------------------------------------------------------
(* SpecCreate: one call of Archive::new or of create, over every x-files   *)
(* factor and every archive Archive::new can return                        *)

CreateArchiveArgs ==
    [filename : PathQ, template : {"none"}, sources : {<<>>},
     data_sources : SeqsUpTo(StrQ, 1),
     round_robin_archives : SeqsUpTo(ArchiveValues(ConsolidationFns), 2)]

ArchiveNewOnce == ncalls = 0 /\ ArchiveNew
CreateOnce == ncalls = 0 /\ Create(CreateArchiveArgs)

NextCreate ==
    \/ ArchiveNewOnce
    \/ CreateOnce

SpecCreate == Init /\ [][NextCreate]_vars

----------------------------------------------------------------------------
(* SpecUpdate: one call of update_all or of update, over every sequence of *)
(* batches                                                                 *)

DatumCycle == <<Unspecified, DatumInt(42), DatumFloat("1.5")>>
Points(k) == [i \in 1..k |-> DatumCycle[(i % 3) + 1]]
BatchTimes == {Now, Timestamp(920804460)}
Batches == {[ts |-> t, data |-> Points(k)] : t \in BatchTimes, k \in 0..MaxPoints}

UpdateAllBatchArgs == [filename : PathQ, data : SeqsUpTo(Batches, MaxBatches)]
UpdateBatchArgs ==
    [filename : PathQ, ds_names : SeqsUpTo(StrQ, MaxPoints),
     data : SeqsUpTo(Batches, MaxBatches - 1)]

UpdateAllOnce == ncalls = 0 /\ UpdateAll(UpdateAllBatchArgs)
UpdateOnce == ncalls = 0 /\ Update(UpdateBatchArgs)

NextUpdate ==
    \/ UpdateAllOnce
    \/ UpdateOnce

SpecUpdate == Init /\ [][NextUpdate]_vars

\* C5: update_all over batches of which two differ in their number of points
\* never invokes the engine's update entry point, and returns
\* InvalidArgument when its filename has a C string; over batches that all
\* have the same number of points, and such a filename, it hands the engine
\* one token per batch.
C5_BatchCounts ==
    last.op = "update_all" =>
        LET data == last.in.data
            differ == \E i, j \in 1..Len(data) : Len(data[i].data) # Len(data[j].data)
        IN  /\ differ => ~EngineCalled
            /\ (differ /\ ~BadPath(last.in.filename)) => last.ret = InvalidArgument
            /\ (~differ /\ ~BadPath(last.in.filename)) =>
                   /\ EngineCalled
                   /\ Len(ffi[1].argv) = Len(data)
                   /\ \A i \in 1..Len(data) : Len(ffi[1].argv[i]) = 1 + Len(data[i].data)

\* Three batches, the last with a different count, and a good filename
C5_Witness ==
    /\ last.op = "update_all"
    /\ last.in.filename = "ok"
    /\ Len(last.in.data) = 3
    /\ Len(last.in.data[1].data) = Len(last.in.data[2].data)
    /\ Len(last.in.data[3].data) # Len(last.in.data[1].data)
    /\ last.ret = InvalidArgument
    /\ ffi = <<>>

\* C5 as the specification words it: whatever the filename, batches that
\* differ give InvalidArgument with no engine call, and batches that agree
\* give one token per batch.
C5_AsStated ==
    last.op = "update_all" =>
        LET data == last.in.data
            differ == \E i, j \in 1..Len(data) : Len(data[i].data) # Len(data[j].data)
        IN  IF differ THEN last.ret = InvalidArgument /\ ~EngineCalled
            ELSE EngineCalled /\ Len(ffi[1].argv) = Len(data)

----------------------------------------------------------------------------
(* Properties of SpecCreate *)

\* 0 <= f < 1, for f a multiple of 1/XffDen
FactorInRange(f) == f[1] = "num" /\ f[2] \in 0..(XffDen - 1)

----------------------------------------------------------------------------
(* SpecThreads: each thread runs update_all up to its return, a statement  *)
(* at a time: the engine call, then in get_rrd_error the call of           *)
(* rrd_get_error, the copy of the text and the call of rrd_clear_error.    *)
(* No lock is taken anywhere on the way.                                   *)

Threads == 1..MaxThreads

InitThreaded ==
    /\ InitFacade /\ InitFetch /\ InitInfo /\ InitStrings /\ InitData
    /\ pc = [t \in Threads |-> "start"]
    /\ tcall = [t \in Threads |-> NoOut]
    /\ tret = [t \in Threads |-> None]

Machine == [err |-> rrd_error, ffi |-> ffi]

ThreadFrame == UNCHANGED <<ncalls, last, fetchVars, walk, stringVars, dataVars>>

\* update.rs 122-131: rrd_updatex_r, then the match on rc
T_Call(t) ==
    /\ pc[t] = "start"
    /\ \E out \in Outcomes :
           LET m == EngineEntry(Machine, "rrd_updatex_r", <<t>>, out, t)
               r == IF out.rc = 0 THEN return_code_to_result(out.rc, m)
                    ELSE [ret |-> None, m |-> m]
           IN  /\ rrd_error' = r.m.err
               /\ ffi' = r.m.ffi
               /\ tcall' = [tcall EXCEPT ![t] = out]
               /\ tret' = [tret EXCEPT ![t] = r.ret]
               /\ pc' = [pc EXCEPT ![t] = IF out.rc = 0 THEN "done" ELSE "called"]
    /\ ThreadFrame

\* error.rs 58-60: p = rrd_get_error(); a null p is None, which
\* return_code_to_result turns into Internal
T_GetError(t) ==
    /\ pc[t] = "called"
    /\ LET m == rrd_get_error(Machine)
       IN  /\ ffi' = m.ffi
           /\ rrd_error' = m.err
           /\ tret' = [tret EXCEPT ![t] = IF rrd_error = NULL THEN Internal ELSE None]
           /\ pc' = [pc EXCEPT ![t] = IF rrd_error = NULL THEN "done" ELSE "got"]
    /\ UNCHANGED tcall
    /\ ThreadFrame

\* error.rs 62: the copy of the text p points at, as it is by now
T_Copy(t) ==
    /\ pc[t] = "got"
    /\ tret' = [tret EXCEPT ![t] = LibRrdError(rrd_error)]
    /\ pc' = [pc EXCEPT ![t] = "copied"]
    /\ UNCHANGED <<rrd_error, ffi, tcall>>
    /\ ThreadFrame

\* error.rs 63-64: rrd_clear_error(), then the return
T_Clear(t) ==
    /\ pc[t] = "copied"
    /\ LET m == rrd_clear_error(Machine)
       IN  /\ ffi' = m.ffi
           /\ rrd_error' = m.err
    /\ pc' = [pc EXCEPT ![t] = "done"]
    /\ UNCHANGED <<tcall, tret>>
    /\ ThreadFrame

Call_T == \E t \in Threads : T_Call(t)
GetError_T == \E t \in Threads : T_GetError(t)
Copy_T == \E t \in Threads : T_Copy(t)
Clear_T == \E t \in Threads : T_Clear(t)

NextThreads ==
    \/ Call_T
    \/ GetError_T
    \/ Copy_T
    \/ Clear_T

SpecThreads == InitThreaded /\ [][NextThreads]_vars

\* C1: with threads that each make a failing engine call, every thread's
\* returned error carries the text of its own call.
C1_OwnErrorText ==
    (\A t \in Threads : pc[t] = "done" /\ tcall[t].rc # 0 /\ tcall[t].sets) =>
        \A t \in Threads : tret[t] = LibRrdError(t)

----------------------------------------------------------------------------
(* SpecInfo: build_info_map over every list of up to MaxNodes nodes, one   *)
(* turn of its loop at a time                                              *)

InfoTags == KnownTags \cup {"unrecognized"}
InfoKeys == {"a", "b"}

\* The node at position i of a list: its payload is engine memory for the
\* string and blob tags, a number otherwise
InfoNode(key, type, i) ==
    [key |-> key, type |-> type,
     value |-> IF type \in {"RD_I_STR", "RD_I_BLO"} THEN ForeignBytes(i) ELSE Num(i)]

\* The list of n nodes with the given keys and tags
InfoList(n, ks, ts) == [i \in 1..n |-> InfoNode(ks[i], ts[i], i)]

\* build_info_map is entered with the head of a list the engine returned
InfoStart ==
    /\ walk = NoWalk
    /\ \E n \in 1..MaxNodes :
           \E ks \in [1..n -> InfoKeys], ts \in [1..n -> InfoTags] :
               walk' = InfoWalkStart(InfoList(n, ks, ts),
                                     [err |-> rrd_error, ffi |-> <<>>])
    /\ ffi' = <<>>
    /\ UNCHANGED <<rrd_error, ncalls, last, fetchVars, threadVars, stringVars, dataVars>>

WalkStep ==
    /\ walk.status = "walk"
    /\ walk' = InfoWalkStep(walk)
    /\ ffi' = walk'.m.ffi
    /\ rrd_error' = walk'.m.err
    /\ UNCHANGED <<ncalls, last, fetchVars, threadVars, stringVars, dataVars>>

NextInfo ==
    \/ InfoStart
    \/ WalkStep

SpecInfo == Init /\ [][NextInfo]_vars

\* The node pointers the trace reads, in order
RECURSIVE ReadsOf(_)
ReadsOf(trace) ==
    IF trace = <<>> THEN <<>>
    ELSE IF trace[1].fn = "read" THEN <<trace[1].argv[1]>> \o ReadsOf(Tail(trace))
         ELSE ReadsOf(Tail(trace))

FreesOfList == {i \in 1..Len(ffi) : ffi[i].fn = "rrd_info_free"}

\* The last node of the list that carries the key
LastWith(nodes, k) ==
    CHOOSE i \in 1..Len(nodes) :
        /\ nodes[i].key = k
        /\ \A j \in (i + 1)..Len(nodes) : nodes[j].key # k

\* C7: build_info_map reads the nodes of the list once each in list order;
\* it frees the list with one call on the head, after the last read, so that
\* no node is read after the free; the map it returns holds copies only.
C7_WalkThenFree ==
    /\ walk.status = "walk" =>
           /\ FreesOfList = {}
           /\ ReadsOf(ffi) = [i \in 1..Len(ReadsOf(ffi)) |-> i]
           /\ walk.current = IF Len(ReadsOf(ffi)) < Len(walk.nodes)
                             THEN Len(ReadsOf(ffi)) + 1 ELSE NULL
    /\ walk.status = "returned" =>
           /\ ReadsOf(ffi) = [i \in 1..Len(walk.nodes) |-> i]
           /\ FreesOfList = {Len(ffi)}
           /\ ffi[Len(ffi)].argv = <<ListHead>>
           /\ DOMAIN walk.map = {walk.nodes[i].key : i \in 1..Len(walk.nodes)}
           /\ \A k \in DOMAIN walk.map :
                  LET node == walk.nodes[LastWith(walk.nodes, k)]
                  IN  /\ walk.map[k][2][1] # "ptr"
                      /\ walk.map[k][2][2] = node.value[2]
                      /\ walk.map[k][1] =
                             CASE node.type = "RD_I_VAL" -> "Value"
                               [] node.type = "RD_I_CNT" -> "Count"
                               [] node.type = "RD_I_STR" -> "String"
                               [] node.type = "RD_I_INT" -> "Int"
                               [] node.type = "RD_I_BLO" -> "Blob"

\* A walk over a list of MaxNodes nodes, with a string in it, has returned
C7_Witness ==
    /\ walk.status = "returned"
    /\ Len(walk.nodes) = MaxNodes
    /\ \E i \in 1..Len(walk.nodes) : walk.nodes[i].type = "RD_I_STR"
    /\ ffi[Len(ffi)].fn = "rrd_info_free"

\* C8: on every exit path of build_info_map, the fatal one included, the
\* list is released exactly once.
C8_ReleasedOnEveryExit ==
    walk.status \in {"returned", "panicked"} => Cardinality(FreesOfList) = 1

----------------------------------------------------------------------------
(* SpecFetch: calls of ops::fetch, and the drop of the Data they returned  *)

FetchedShapes ==
    [start : {0}, end : {0, 2, 3}, step : {1, 2}, ds_count : 0..MaxNames]

FetchSome == Fetch(FetchArgs, FetchedShapes)

NextFetch ==
    \/ FetchSome
    \/ DropData

SpecFetch == Init /\ [][NextFetch]_vars

Occurrences(seq, x) == Cardinality({i \in 1..Len(seq) : seq[i] = x})

\* C9: a successful fetch hands each name string and the array of name
\* pointers to rrd_freemem exactly once before it returns, and the sample
\* buffer exactly once, when the Data is dropped and not before; a failing
\* fetch does not call rrd_freemem.
C9_FetchMemory ==
    /\ (last.op = "fetch" /\ last.ret.kind = "Ok") =>
           LET n == last.out.fetched.ds_count
           IN  /\ \A i \in 1..n : Occurrences(FreedBy(ffi), NamePtr(ncalls, i)) = 1
               /\ Occurrences(FreedBy(ffi), NamesPtr(ncalls)) = 1
               /\ Len(FreedBy(ffi)) = n + 1
               /\ last.ret.data.ptr = DataPtr(ncalls)
               /\ Occurrences(freed, DataPtr(ncalls)) = 0
    /\ (last.op = "fetch" /\ last.ret.kind \in {"LibRrdError", "Internal", "NulError",
                                                "PathEncodingError"}) =>
           FreedBy(ffi) = <<>>
    /\ \A i \in 1..Len(held) : Occurrences(freed, held[i].data.ptr) = 0
    /\ \A i \in 1..Len(freed) : Occurrences(freed, freed[i]) = 1
    /\ last.op = "drop" =>
           /\ FreedBy(ffi) = <<last.in.data.ptr>>
           /\ Occurrences(freed, last.in.data.ptr) = 1

\* A Data with MaxNames sources was fetched, held across a failing fetch,
\* and has now been dropped
C9_Witness ==
    /\ last.op = "drop"
    /\ Len(last.in.names) = MaxNames
    /\ ncalls = 2
    /\ last.in.data.ptr = DataPtr(1)
    /\ Occurrences(freed, DataPtr(1)) = 1
    /\ Occurrences(freed, NamesPtr(1)) = 1

----------------------------------------------------------------------------
(* SpecStrings: util::MaybeNullTerminatedArrayOfStrings, from new to drop  *)

StringInputs == {"a", "b", "nul"}

\* The raw pointer CString::into_raw returns for the i-th string: never null
RawPtr(i) == i

\* new: the strings are converted in order and collect stops at the first
\* that has no C string; the pointers made up to there are not released.
StringArray_new(nt, strings) ==
    LET rs == [i \in 1..Len(strings) |-> CString_new(strings[i])]
        err == FirstErr(rs)
        made == IF err = Ok THEN Len(strings)
                ELSE (CHOOSE i \in 1..Len(rs) :
                          rs[i] # Ok /\ \A j \in 1..(i - 1) : rs[j] = Ok) - 1
        raw == [i \in 1..made |-> RawPtr(i)]
    IN  IF err # Ok
        THEN [ret |-> err, array |-> NoArray, allocated |-> {raw[i] : i \in 1..made}]
        ELSE [ret |-> Ok,
              array |-> [state |-> "live", nt |-> nt,
                         pointers |-> IF nt THEN Append(raw, NULL) ELSE raw,
                         buffer |-> Len(strings) + 1],
              allocated |-> {raw[i] : i \in 1..made}]

\* len() that forgets the terminator
StringArray_len_raw(a) == Len(a.pointers)

StringArray_len(a) == IF a.nt THEN Len(a.pointers) - 1 ELSE Len(a.pointers)

StringArray_is_empty(a) == StringArray_len(a) = 0

\* as_ptr: null for an empty array, the address of the pointers otherwise
StringArray_as_ptr(a) == IF StringArray_is_empty(a) THEN NULL ELSE a.buffer

\* drop: CString::from_raw on every pointer up to the first null one
RECURSIVE TakeWhileNonNull(_)
TakeWhileNonNull(ps) ==
    IF ps = <<>> \/ ps[1] = NULL THEN <<>>
    ELSE <<ps[1]>> \o TakeWhileNonNull(Tail(ps))

\* A drop that hands every pointer of the array to CString::from_raw
StringArray_drop_all(a) == a.pointers

StringArray_drop(a) == TakeWhileNonNull(a.pointers)

StringsFrame == UNCHANGED <<facadeVars, fetchVars, threadVars, walk, dataVars>>

NewArray ==
    /\ arr = NoArray
    /\ released = <<>>
    /\ live = {}
    /\ \E nt \in BOOLEAN, strings \in SeqsUpTo(StringInputs, MaxStrings) :
           LET r == StringArray_new(nt, strings)
           IN  /\ arr' = IF r.ret = Ok
                         THEN [r.array EXCEPT !.state = "live"]
                                  @@ [strings |-> strings, used |-> "no"]
                         ELSE [state |-> "failed", nt |-> nt, ret |-> r.ret,
                               strings |-> strings]
               /\ live' = r.allocated
    /\ UNCHANGED released
    /\ StringsFrame

DropArray ==
    /\ arr.state = "live"
    /\ LET ps == StringArray_drop(arr)
       IN  /\ released' = released \o ps
           /\ live' = live \ {ps[i] : i \in 1..Len(ps)}
    /\ arr' = [state |-> "dropped", nt |-> arr.nt, strings |-> arr.strings,
                used |-> arr.used]
    /\ StringsFrame

\* An engine entry point is handed as_ptr() and len(), and succeeds or fails;
\* the array is a local of the operation and lives until the operation returns
PassArray ==
    /\ arr.state = "live"
    /\ arr.used = "no"
    /\ \E out \in Outcomes : arr' = [arr EXCEPT !.used = IF out.rc = 0 THEN "ok" ELSE "failed"]
    /\ UNCHANGED <<live, released>>
    /\ StringsFrame

NextStrings ==
    \/ NewArray
    \/ PassArray
    \/ DropArray

SpecStrings == Init /\ [][NextStrings]_vars

\* C10: for both variants as_ptr() is null exactly when the array holds no
\* string and len() is the number of strings; a null-terminated array of
\* k >= 1 strings exposes k non-null pointers and then exactly one null.
C10_PointersAndLen ==
    arr.state = "live" =>
        LET k == Len(arr.strings)
        IN  /\ (StringArray_as_ptr(arr) = NULL) <=> (k = 0)
            /\ StringArray_len(arr) = k
            /\ StringArray_is_empty(arr) <=> (k = 0)
            /\ (arr.nt /\ k >= 1) =>
                   /\ Len(arr.pointers) = k + 1
                   /\ \A i \in 1..k : arr.pointers[i] # NULL
                   /\ arr.pointers[k + 1] = NULL
            /\ ~arr.nt => /\ Len(arr.pointers) = k
                          /\ \A i \in 1..k : arr.pointers[i] # NULL

\* A null-terminated array of MaxStrings strings
C10_Witness ==
    /\ arr.state = "live"
    /\ arr.nt
    /\ Len(arr.strings) = MaxStrings
    /\ StringArray_len(arr) = MaxStrings
    /\ StringArray_as_ptr(arr) # NULL

\* C11: every C string of a constructed array stays allocated while the
\* array lives, whatever the engine call that received it returned, and is
\* released exactly once when the array is dropped; the trailing null
\* pointer is never released.
C11_StringsLifetime ==
    LET owned == {RawPtr(i) : i \in 1..Len(arr.strings)}
    IN  /\ arr.state = "live" =>
               /\ released = <<>>
               /\ live = owned
               /\ \A i \in 1..StringArray_len(arr) : arr.pointers[i] \in live
        /\ arr.state = "dropped" =>
               /\ live = {}
               /\ Len(released) = Len(arr.strings)
               /\ \A p \in owned : Occurrences(released, p) = 1
               /\ Occurrences(released, NULL) = 0

\* A null-terminated array of MaxStrings strings was handed to an engine
\* call that failed, and has been dropped
C11_Witness ==
    /\ arr.state = "dropped"
    /\ arr.nt
    /\ arr.used = "failed"
    /\ Len(arr.strings) = MaxStrings
    /\ Len(released) = MaxStrings

----------------------------------------------------------------------------
(* data.rs: rows and cells *)

\* A Vec<f64> behind Deref<Target = [rrd_double]>: sample j is told apart
\* from every other sample
VecBuf(len) == [len |-> len, buf |-> [j \in 1..len |-> <<"sample", j>>]]

Data_row_count(data) == data.row_count

\* Rows::len
Rows_len(data) == Data_row_count(data)

\* RowsIter::new
RowsIter_new(data) == [max_index |-> Data_row_count(data), next_index |-> 0]

\* Row::new with the row index taken for the offset
Row_new_unscaled(data, row_index) ==
    [data_offset |-> row_index,
     timestamp |-> data.start + data.step * row_index]

\* Row::new
Row_new(data, row_index) ==
    [data_offset |-> Len(data.names) * row_index,
     timestamp |-> data.start + data.step * row_index]

\* Row::as_slice: &buffer[data_offset..data_offset + names.len()]; a range
\* that leaves the buffer panics
Row_as_slice(data, row) ==
    IF row.data_offset + Len(data.names) > data.data.len THEN <<Panic>>
    ELSE [i \in 1..Len(data.names) |-> data.data.buf[row.data_offset + i]]

\* Row::iter_cells: names zipped with the slice
Row_iter_cells(data, row) ==
    LET slice == Row_as_slice(data, row)
        n == IF Len(slice) < Len(data.names) THEN Len(slice) ELSE Len(data.names)
    IN  [i \in 1..n |-> [name |-> data.names[i], value |-> slice[i]]]

\* RowsIter::next that does not stop at max_index
RowsIter_next_inclusive(data, it) ==
    IF it.next_index <= it.max_index
    THEN [it |-> [it EXCEPT !.next_index = it.next_index + 1],
          item |-> <<Row_new(data, it.next_index)>>]
    ELSE [it |-> it, item |-> <<>>]

\* RowsIter::next: Some(row) is a one-element sequence, None the empty one
RowsIter_next(data, it) ==
    IF it.next_index < it.max_index
    THEN [it |-> [it EXCEPT !.next_index = it.next_index + 1],
          item |-> <<Row_new(data, it.next_index)>>]
    ELSE [it |-> it, item |-> <<>>]

\* RowsIter::size_hint: the lower bound and the upper bound
RowsIter_size_hint(it) == <<it.max_index, Some(it.max_index)>>

\* ExactSizeIterator::len, as the standard library provides it: the lower
\* bound of size_hint, which has to be its upper bound
RowsIter_len(it) ==
    LET hint == RowsIter_size_hint(it)
    IN  IF hint[2] # Some(hint[1]) THEN Panic
        ELSE [kind |-> "Ok", text |-> NULL, len |-> hint[1]]

----------------------------------------------------------------------------
(* SpecData: Data::new over every number of sources and buffer length,     *)
(* then rows().iter() run to its end, twice                                *)

DataFrame == UNCHANGED <<facadeVars, fetchVars, threadVars, walk, stringVars>>

DataNew ==
    /\ dat = NoData
    /\ \E n \in 0..MaxNames, len \in 0..MaxLen, start \in {0, 1000}, step \in {1, 300} :
           LET names == [i \in 1..n |-> <<"ds", i>>]
               rows == IF n = 0 THEN 0 ELSE len \div n
           IN  dat' = [state |-> "new", sources |-> n, len |-> len,
                       ret |-> Data_new(start, start + step * rows, step, names,
                                        VecBuf(len))]
    /\ UNCHANGED iter
    /\ DataFrame

\* rows().iter(): a first time, and again once the first iterator has ended
RowsIter ==
    /\ dat.state = "new"
    /\ dat.ret.kind = "Ok"
    /\ \/ iter = NoIter /\ iter' = [state |-> "running", pass |-> 1, first |-> <<>>,
                                     yielded |-> <<>>, it |-> RowsIter_new(dat.ret)]
       \/ /\ iter.state = "ended"
          /\ iter.pass = 1
          /\ iter' = [state |-> "running", pass |-> 2, first |-> iter.yielded,
                      yielded |-> <<>>, it |-> RowsIter_new(dat.ret)]
    /\ UNCHANGED dat
    /\ DataFrame

RowsNext ==
    /\ iter.state = "running"
    /\ LET r == RowsIter_next(dat.ret, iter.it)
       IN  iter' = [iter EXCEPT !.it = r.it,
                                !.yielded = iter.yielded \o r.item,
                                !.state = IF r.item = <<>> THEN "ended" ELSE "running"]
    /\ UNCHANGED dat
    /\ DataFrame

NextData ==
    \/ DataNew
    \/ RowsIter
    \/ RowsNext

SpecData == Init /\ [][NextData]_vars

\* C12: Data::new returns a Data only for a buffer whose length is an exact
\* multiple of the number of source names, with row_count the quotient; a
\* length that is not a multiple is fatal; so row_count() * sources().len()
\* is the buffer length of every Data.
C12_DataNew ==
    dat.state = "new" =>
        /\ dat.ret.kind \in {"Ok", "Panic"}
        /\ dat.ret.kind = "Ok" =>
               /\ dat.sources > 0
               /\ \E k \in 0..dat.len : k * dat.sources = dat.len
               /\ Data_row_count(dat.ret) * dat.sources = dat.len
               /\ Data_row_count(dat.ret) * Len(dat.ret.names) = dat.ret.data.len
        /\ (dat.sources > 0 /\ ~\E k \in 0..dat.len : k * dat.sources = dat.len) =>
               dat.ret.kind = "Panic"

\* A Data of MaxNames sources and more than one row
C12_Witness ==
    /\ dat.state = "new"
    /\ dat.ret.kind = "Ok"
    /\ dat.sources = MaxNames
    /\ Data_row_count(dat.ret) > 1

\* C13: for a Data of N sources and R rows, rows().len() is R, rows().iter()
\* yields exactly R rows and then ends, every row's iter_cells() yields N
\* cells of which the i-th pairs the i-th source name with the i-th sample
\* of the row, and a second rows().iter() yields the same sequence.
C13_RowsAndCells ==
    (dat.state = "new" /\ dat.ret.kind = "Ok") =>
        LET N == dat.sources
            R == dat.len \div N
        IN  /\ Rows_len(dat.ret) = R
            /\ iter.state = "running" => Len(iter.yielded) <= R
            /\ iter.state = "ended" =>
                   /\ Len(iter.yielded) = R
                   /\ RowsIter_next(dat.ret, iter.it).item = <<>>
            /\ iter.state \in {"running", "ended"} =>
                   \A k \in 1..Len(iter.yielded) :
                       LET cells == Row_iter_cells(dat.ret, iter.yielded[k])
                       IN  /\ Len(cells) = N
                           /\ \A i \in 1..N :
                                  cells[i] = [name |-> <<"ds", i>>,
                                              value |-> <<"sample", (k - 1) * N + i>>]
            /\ (iter.state = "ended" /\ iter.pass = 2) => iter.yielded = iter.first

\* The second iterator over a Data of MaxNames sources and several rows has
\* ended
C13_Witness ==
    /\ dat.state = "new"
    /\ dat.sources = MaxNames
    /\ iter.state = "ended"
    /\ iter.pass = 2
    /\ Len(iter.yielded) > 1
    /\ iter.yielded = iter.first

\* C14: the row yielded at index i has timestamp start + step * i and the
\* sample slice buffer[i*n .. i*n + n], n the number of sources; the slice
\* lies inside the buffer and the slices of distinct rows do not overlap.
C14_RowGeometry ==
    iter.state \in {"running", "ended"} =>
        LET d == dat.ret
            n == dat.sources
        IN  \A k \in 1..Len(iter.yielded) :
                LET i == k - 1
                    row == iter.yielded[k]
                IN  /\ i < Data_row_count(d)
                    /\ row.timestamp = d.start + d.step * i
                    /\ row.data_offset = i * n
                    /\ i * n + n <= dat.len
                    /\ Row_as_slice(d, row) = [j \in 1..n |-> <<"sample", i * n + j>>]
                    /\ \A k2 \in 1..Len(iter.yielded) :
                           k2 # k =>
                               \/ row.data_offset + n <= iter.yielded[k2].data_offset
                               \/ iter.yielded[k2].data_offset + n <= row.data_offset

\* Three rows of MaxNames samples each have been yielded
C14_Witness ==
    /\ iter.state = "running"
    /\ dat.sources = MaxNames
    /\ Len(iter.yielded) = 3
    /\ iter.yielded[3].data_offset = 2 * MaxNames
    /\ iter.yielded[3].timestamp = dat.ret.start + dat.ret.step * 2

\* C15: the Data fetch returns has start() equal to the engine-returned
\* start plus one engine-returned step, and (end - start()) / step + 1 rows;
\* its first row's timestamp is start() and, when end - start() is a
\* multiple of the step, its last row's timestamp is end().
C15_FetchStartShift ==
    (last.op = "fetch" /\ last.ret.kind = "Ok") =>
        LET e == last.out.fetched
            d == last.ret
            R == Data_row_count(d)
        IN  /\ d.start = e.start + e.step
            /\ d.end = e.end
            /\ d.step = e.step
            /\ R = ((d.end - d.start) \div d.step) + 1
            /\ Row_new(d, 0).timestamp = d.start
            /\ (\E k \in 0..(d.end - d.start) : k * d.step = d.end - d.start) =>
                   Row_new(d, R - 1).timestamp = d.end

\* A fetch of two rows whose last row is at end()
C15_Witness ==
    /\ last.op = "fetch"
    /\ last.ret.kind = "Ok"
    /\ last.out.fetched.step = 1
    /\ last.out.fetched.end = 2
    /\ last.ret.start = 1
    /\ Data_row_count(last.ret) = 2
    /\ Row_new(last.ret, 1).timestamp = last.ret.end

\* C16: when the engine call of create, update_all, update, fetch, graph or
\* info reports failure (a path that does not exist, a time range the engine
\* rejects, any other engine-side failure), the operation returns a
\* structured error, LibRrdError or Internal, and does not panic.
C16_StructuredErrors ==
    (last.op \in OpsFacade /\ EngineFailed) =>
        /\ last.ret.kind \in {"LibRrdError", "Internal"}
        /\ last.ret.kind # "Panic"
        /\ last.out.sets => last.ret = LibRrdError(ncalls)

\* The engine's graph call failed without leaving a text: Internal
C16_Witness ==
    /\ last.op = "graph"
    /\ EngineFailed
    /\ ~last.out.sets
    /\ last.before = NULL
    /\ last.ret = Internal

----------------------------------------------------------------------------
(* SpecGraph: one call of ops::graph with arguments that convert, and every *)
(* shape of list the engine may answer with                                 *)

ExpectedKeys == {GraphKeys[i][1] : i \in 1..Len(GraphKeys)}

TagOf(variant) ==
    CASE variant = "Blob" -> "RD_I_BLO"
      [] variant = "Count" -> "RD_I_CNT"
      [] variant = "Value" -> "RD_I_VAL"
      [] variant = "Int" -> "RD_I_INT"

\* The node the engine emits for the i-th expected key
GraphNode(i, variant, count) ==
    [key |-> GraphKeys[i][1], type |-> TagOf(variant),
     value |-> IF variant = "Blob" THEN ForeignBytes(i)
               ELSE IF GraphKeys[i][1] \in TimeKeys THEN Num(count) ELSE Num(i)]

\* What the elements in use add to the list
ExtraNodes ==
    <<[key |-> "legend[0]", type |-> "RD_I_STR", value |-> ForeignBytes(20)],
      [key |-> "coords[0]", type |-> "RD_I_STR", value |-> ForeignBytes(21)]>>

RECURSIVE SelectNodes(_, _)
SelectNodes(nodes, keep) ==
    IF nodes = <<>> THEN <<>>
    ELSE IF keep[Len(nodes)]
         THEN Append(SelectNodes(SubSeq(nodes, 1, Len(nodes) - 1), keep), nodes[Len(nodes)])
         ELSE SelectNodes(SubSeq(nodes, 1, Len(nodes) - 1), keep)

\* The engine's list: the expected keys but the one left out (0: none), the
\* key named by other (0: none) holding an integer, the times at count, and
\* the first extra of the additional nodes.
GraphList(without, other, count, extra) ==
    SelectNodes([i \in 1..Len(GraphKeys) |->
                     GraphNode(i, IF i = other THEN "Int" ELSE GraphKeys[i][2], count)],
                [i \in 1..Len(GraphKeys) |-> i # without])
        \o SubSeq(ExtraNodes, 1, extra)

TimeCounts == {1, ChronoMax, ChronoMax + 1, U64Max}

GraphLists ==
    {GraphList(without, other, count, extra) :
        without \in 0..Len(GraphKeys), other \in 0..Len(GraphKeys),
        count \in TimeCounts, extra \in 0..Len(ExtraNodes)}

AGraph ==
    [image_format |-> "Png", props |-> DefaultProps,
     elements |-> <<[kind |-> "Def", q |-> "ok"], [kind |-> "Line", q |-> "ok"]>>]

GraphOnce ==
    /\ ncalls = 0
    /\ Graph({AGraph}, GraphLists)

NextGraph == GraphOnce

SpecGraph == Init /\ [][NextGraph]_vars

\* The map build_info_map made of the list the engine returned
ReturnedMap == build_info_map(last.out.nodes, [err |-> NULL, ffi |-> <<>>]).ret.map

\* The map lacks an expected key, or holds it with another variant
LacksExpected(map) ==
    \E i \in 1..Len(GraphKeys) :
        \/ GraphKeys[i][1] \notin DOMAIN map
        \/ map[GraphKeys[i][1]][1] # GraphKeys[i][2]

\* C17: when the list the engine's graph call returns lacks one of the eleven
\* expected keys, or holds one with another value type, graph returns
\* Internal and does not panic; when graph succeeds, extra_info is the
\* returned map without the eleven keys.
C17_GraphInfoMap ==
    (last.op = "graph" /\ EngineCalled /\ ~EngineFailed) =>
        /\ LacksExpected(ReturnedMap) => last.ret = Internal
        /\ last.ret.kind = "Ok" =>
               last.ret.extra_info =
                   [k \in DOMAIN ReturnedMap \ ExpectedKeys |-> ReturnedMap[k]]

----------------------------------------------------------------------------
(* SpecProps: the argument list of graph                                    *)

\* The GraphProps of the test everything_set
EverythingSet ==
    [time_range |-> [start |-> Some(1000), end |-> Some(100000),
                     step_seconds |-> Some(60)],
     labels |-> [title |-> "ok", vertical_label |-> "ok"],
     size |-> [width |-> Some(1024), height |-> Some(768), full_size_mode |-> TRUE,
               only_graph |-> TRUE],
     limits |-> [upper_limit |-> Some(1000), lower_limit |-> Some(10), rigid |-> TRUE,
                 allow_shrink |-> TRUE,
                 alt_autoscale |-> Some([alt_autoscale_min |-> Some(11),
                                         alt_autoscale_max |-> Some(22)]),
                 no_grid_fit |-> TRUE],
     x_axis |-> [grid |-> Some([kind |-> "Custom", base_grid_time |-> "Second",
                                base_grid_step |-> 1, major_grid_time |-> "Hour",
                                major_grid_step |-> 2, labels_time |-> "Month",
                                labels_step |-> 3, label_placement |-> 4,
                                label_format |-> "ok"]),
                 week_format |-> "ok"],
     y_axis |-> [grid |-> Some([kind |-> "Custom", grid_step |-> 100,
                                label_factor |-> 2]),
                 formatter |-> Some("Numeric"), format |-> "ok",
                 alt_y_grid |-> TRUE, logarithmic |-> TRUE,
                 units_exponent |-> Some([exp |-> 3]), units_length |-> Some(4),
                 units |-> Some("Si")],
     right_y_axis |-> Some([scale |-> 0, shift |-> 0, label |-> "ok",
                            formatter |-> Some("Numeric"), format |-> "ok"]),
     legend |-> [no_legend |-> TRUE, force_rules_legend |-> TRUE,
                 legend_position |-> Some("North"),
                 legend_direction |-> Some("BottomUp")],
     misc |-> [colors |-> <<<<"Axis", [red |-> 1, green |-> 2, blue |-> 3,
                                       alpha |-> Some(4)]>>>>,
               grid_dash |-> Some(<<1, 2>>), border |-> Some(4),
               dynamic_labels |-> TRUE, zoom |-> Some(33),
               fonts |-> <<<<"Unit", [size |-> 11, font |-> "ok"]>>>>,
               font_render_mode |-> Some("Mono"),
               font_smoothing_threshold |-> Some(1234), pango_markup |-> TRUE,
               graph_render_mode |-> Some("Mono"), slope_mode |-> TRUE,
               interlaced |-> TRUE, tab_width |-> Some(7), base |-> Some(4),
               watermark |-> "ok", use_nan_for_all_missing_data |-> TRUE]]

\* What the test expects of it, group by group; a caller's string stands
\* under the name of its field
EverythingExpected ==
    [time_range |-> <<"--start", "1000", "--end", "100000", "--step", "60">>,
     labels |-> <<"--title", "title", "--vertical-label", "vertical_label">>,
     size |-> <<"--width", "1024", "--height", "768", "--only-graph",
                "--full-size-mode">>,
     limits |-> <<"--upper-limit", "100", "--lower-limit", "1", "--rigid",
                  "--allow-shrink", "--alt-autoscale", "--alt-autoscale-min", "1.1",
                  "--alt-autoscale-max", "2.2", "--no-gridfit">>,
     x_axis |-> <<"--x-grid", "SECOND:1:HOUR:2:MONTH:3:4:label_format",
                  "--week-fmt", "week_format">>,
     y_axis |-> <<"--y-grid", "100:2", "--left-axis-formatter", "numeric",
                  "--left-axis-format", "format", "--alt-y-grid", "--logarithmic",
                  "--units-exponent", "3", "--units-length", "4", "--units", "si">>,
     right_y_axis |-> <<"--right-axis", "0:0", "--right-axis-label", "label",
                        "--right-axis-formatter", "numeric", "--right-axis-format",
                        "format">>,
     legend |-> <<"--no-legend", "--force-rules-legend", "--legend-position=north",
                  "--legend-direction=bottomup">>,
     misc |-> <<"--color", "AXIS#01020304", "--grid-dash", "1:2", "--border", "4",
                "--dynamic-labels", "--zoom", "3.3", "--font", "UNIT:11:font",
                "--font-render-mode", "mono", "--font-smoothing-threshold", "1234",
                "--pango-markup", "--graph-render-mode", "mono", "--slope-mode",
                "--interlaced", "--tabwidth", "7", "--base", "4", "--watermark",
                "watermark", "--use-nan-for-all-missing-data">>]

Groups == DOMAIN DefaultProps

\* The props with the groups of S as in everything_set, the others default
PropsWith(S) == [g \in Groups |-> IF g \in S THEN EverythingSet[g] ELSE DefaultProps[g]]

ImageFormats == {"Png", "Svg", "Eps", "Pdf"}

ElementLists ==
    {<<[kind |-> "Def", q |-> "ok"], [kind |-> "Line", q |-> "ok"]>>,
     <<[kind |-> "Line", q |-> "ok"], [kind |-> "Def", q |-> "ok"]>>,
     <<[kind |-> "Def", q |-> "ok"], [kind |-> "Comment", q |-> "ok"],
       [kind |-> "Area", q |-> "ok"]>>}

\* graph called with some groups of properties set
GraphWithProps ==
    /\ ncalls = 0
    /\ \E S \in SUBSET Groups :
           Graph([image_format : ImageFormats, props : {PropsWith(S)},
                  elements : ElementLists], {AGraphList})

Texts(tokens) == [i \in 1..Len(tokens) |-> tokens[i].text]

NextProps ==
    \/ GraphWithProps

SpecProps == Init /\ [][NextProps]_vars

\* The groups of the latest call's props that are as in everything_set
GroupsSet == {g \in Groups : last.in.props[g] = EverythingSet[g]}

ExpectedOf(g) == IF g \in GroupsSet THEN EverythingExpected[g] ELSE <<>>

\* C18: the argument list graph hands to the engine is graphv, -, the two
\* image-format tokens, the tokens of the property groups in the order time
\* range, labels, size, limits, x-axis, y-axis, right y-axis (only if
\* present), legend, misc, and then one token per element in the caller's
\* order.
C18_ArgumentOrder ==
    (last.op = "graph" /\ EngineCalled) =>
        LET argv == Texts(ffi[1].argv)
            elements == last.in.elements
        IN  argv = <<"graphv", "-", "--imgformat",
                     CASE last.in.image_format = "Png" -> "PNG"
                       [] last.in.image_format = "Svg" -> "SVG"
                       [] last.in.image_format = "Eps" -> "EPS"
                       [] last.in.image_format = "Pdf" -> "PDF">>
                   \o ExpectedOf("time_range") \o ExpectedOf("labels")
                   \o ExpectedOf("size") \o ExpectedOf("limits")
                   \o ExpectedOf("x_axis") \o ExpectedOf("y_axis")
                   \o ExpectedOf("right_y_axis") \o ExpectedOf("legend")
                   \o ExpectedOf("misc")
                   \o [i \in 1..Len(elements) |-> elements[i].kind]

\* Every group set, the right y-axis too, and three elements
C18_Witness ==
    /\ last.op = "graph"
    /\ EngineCalled
    /\ GroupsSet = Groups
    /\ Len(last.in.elements) = 3
    /\ Len(ffi[1].argv) = 4 + 85 + 3
    /\ ffi[1].argv[5].text = "--start"
    /\ ffi[1].argv[92].text = "Area"

----------------------------------------------------------------------------
(* SpecRender: append_to called on its own                                  *)

\* One field of GraphProps set and the others left at their default, with
\* the tokens the field stands for in the engine's command line
FieldSettings ==
    <<[path |-> <<"time_range", "start">>, value |-> Some(1000),
       tokens |-> <<"--start", "1000">>],
      [path |-> <<"time_range", "end">>, value |-> Some(100000),
       tokens |-> <<"--end", "100000">>],
      [path |-> <<"time_range", "step_seconds">>, value |-> Some(60),
       tokens |-> <<"--step", "60">>],
      [path |-> <<"labels", "title">>, value |-> "ok",
       tokens |-> <<"--title", "title">>],
      [path |-> <<"labels", "vertical_label">>, value |-> "ok",
       tokens |-> <<"--vertical-label", "vertical_label">>],
      [path |-> <<"size", "width">>, value |-> Some(1024),
       tokens |-> <<"--width", "1024">>],
      [path |-> <<"size", "height">>, value |-> Some(768),
       tokens |-> <<"--height", "768">>],
      [path |-> <<"size", "full_size_mode">>, value |-> TRUE,
       tokens |-> <<"--full-size-mode">>],
      [path |-> <<"size", "only_graph">>, value |-> TRUE,
       tokens |-> <<"--only-graph">>],
      [path |-> <<"limits", "upper_limit">>, value |-> Some(1000),
       tokens |-> <<"--upper-limit", "100">>],
      [path |-> <<"limits", "lower_limit">>, value |-> Some(10),
       tokens |-> <<"--lower-limit", "1">>],
      [path |-> <<"limits", "rigid">>, value |-> TRUE,
       tokens |-> <<"--rigid">>],
      [path |-> <<"limits", "allow_shrink">>, value |-> TRUE,
       tokens |-> <<"--allow-shrink">>],
      [path |-> <<"limits", "alt_autoscale">>, value |-> Some([alt_autoscale_min |-> Unset, alt_autoscale_max |-> Unset]),
       tokens |-> <<"--alt-autoscale">>],
      [path |-> <<"limits", "alt_autoscale">>, value |-> Some([alt_autoscale_min |-> Some(11), alt_autoscale_max |-> Unset]),
       tokens |-> <<"--alt-autoscale", "--alt-autoscale-min", "1.1">>],
      [path |-> <<"limits", "alt_autoscale">>, value |-> Some([alt_autoscale_min |-> Unset, alt_autoscale_max |-> Some(22)]),
       tokens |-> <<"--alt-autoscale", "--alt-autoscale-max", "2.2">>],
      [path |-> <<"limits", "no_grid_fit">>, value |-> TRUE,
       tokens |-> <<"--no-gridfit">>],
      [path |-> <<"x_axis", "grid">>, value |-> Some([kind |-> "None"]),
       tokens |-> <<"--x-grid", "none">>],
      [path |-> <<"x_axis", "grid">>, value |-> EverythingSet.x_axis.grid,
       tokens |-> <<"--x-grid", "SECOND:1:HOUR:2:MONTH:3:4:label_format">>],
      [path |-> <<"x_axis", "week_format">>, value |-> "ok",
       tokens |-> <<"--week-fmt", "week_format">>],
      [path |-> <<"y_axis", "grid">>, value |-> Some([kind |-> "None"]),
       tokens |-> <<"--y-grid", "none">>],
      [path |-> <<"y_axis", "grid">>, value |-> EverythingSet.y_axis.grid,
       tokens |-> <<"--y-grid", "100:2">>],
      [path |-> <<"y_axis", "formatter">>, value |-> Some("Numeric"),
       tokens |-> <<"--left-axis-formatter", "numeric">>],
      [path |-> <<"y_axis", "formatter">>, value |-> Some("Timestamp"),
       tokens |-> <<"--left-axis-formatter", "timestamp">>],
      [path |-> <<"y_axis", "formatter">>, value |-> Some("Duration"),
       tokens |-> <<"--left-axis-formatter", "duration">>],
      [path |-> <<"y_axis", "format">>, value |-> "ok",
       tokens |-> <<"--left-axis-format", "format">>],
      [path |-> <<"y_axis", "alt_y_grid">>, value |-> TRUE,
       tokens |-> <<"--alt-y-grid">>],
      [path |-> <<"y_axis", "logarithmic">>, value |-> TRUE,
       tokens |-> <<"--logarithmic">>],
      [path |-> <<"y_axis", "units_exponent">>, value |-> Some([exp |-> 3]),
       tokens |-> <<"--units-exponent", "3">>],
      [path |-> <<"y_axis", "units_length">>, value |-> Some(4),
       tokens |-> <<"--units-length", "4">>],
      [path |-> <<"y_axis", "units">>, value |-> Some("Si"),
       tokens |-> <<"--units", "si">>],
      [path |-> <<"right_y_axis">>, value |-> Some([scale |-> 15, shift |-> 2, label |-> "none", formatter |-> Unset, format |-> "none"]),
       tokens |-> <<"--right-axis", "1.5:2">>],
      [path |-> <<"legend", "no_legend">>, value |-> TRUE,
       tokens |-> <<"--no-legend">>],
      [path |-> <<"legend", "force_rules_legend">>, value |-> TRUE,
       tokens |-> <<"--force-rules-legend">>],
      [path |-> <<"legend", "legend_position">>, value |-> Some("South"),
       tokens |-> <<"--legend-position=south">>],
      [path |-> <<"legend", "legend_direction">>, value |-> Some("TopDown"),
       tokens |-> <<"--legend-direction=topdown">>],
      [path |-> <<"misc", "colors">>, value |-> <<<<"Back", [red |-> 255, green |-> 0, blue |-> 16, alpha |-> Unset]>>>>,
       tokens |-> <<"--color", "BACK#FF0010">>],
      [path |-> <<"misc", "grid_dash">>, value |-> Some(<<1, 2>>),
       tokens |-> <<"--grid-dash", "1:2">>],
      [path |-> <<"misc", "border">>, value |-> Some(4),
       tokens |-> <<"--border", "4">>],
      [path |-> <<"misc", "dynamic_labels">>, value |-> TRUE,
       tokens |-> <<"--dynamic-labels">>],
      [path |-> <<"misc", "zoom">>, value |-> Some(33),
       tokens |-> <<"--zoom", "3.3">>],
      [path |-> <<"misc", "fonts">>, value |-> <<<<"Title", [size |-> 12, font |-> "none"]>>>>,
       tokens |-> <<"--font", "TITLE:12">>],
      [path |-> <<"misc", "font_render_mode">>, value |-> Some("Light"),
       tokens |-> <<"--font-render-mode", "light">>],
      [path |-> <<"misc", "font_smoothing_threshold">>, value |-> Some(1234),
       tokens |-> <<"--font-smoothing-threshold", "1234">>],
      [path |-> <<"misc", "pango_markup">>, value |-> TRUE,
       tokens |-> <<"--pango-markup">>],
      [path |-> <<"misc", "graph_render_mode">>, value |-> Some("Normal"),
       tokens |-> <<"--graph-render-mode", "normal">>],
      [path |-> <<"misc", "slope_mode">>, value |-> TRUE,
       tokens |-> <<"--slope-mode">>],
      [path |-> <<"misc", "interlaced">>, value |-> TRUE,
       tokens |-> <<"--interlaced">>],
      [path |-> <<"misc", "tab_width">>, value |-> Some(7),
       tokens |-> <<"--tabwidth", "7">>],
      [path |-> <<"misc", "base">>, value |-> Some(1024),
       tokens |-> <<"--base", "1024">>],
      [path |-> <<"misc", "watermark">>, value |-> "ok",
       tokens |-> <<"--watermark", "watermark">>],
      [path |-> <<"misc", "use_nan_for_all_missing_data">>, value |-> TRUE,
       tokens |-> <<"--use-nan-for-all-missing-data">>]>>

\* GraphProps { field: value, ..Default::default() }
SetField(path, value) ==
    IF Len(path) = 1 THEN [DefaultProps EXCEPT ![path[1]] = value]
    ELSE [DefaultProps EXCEPT ![path[1]][path[2]] = value]

\* The args a caller may already hold
ArgsBefore ==
    {<<>>,
     <<Token("graphv", "ok"), Token("-", "ok")>>,
     <<Token("graphv", "ok"), Token("-", "ok"), Token("--imgformat", "ok"),
       Token("PNG", "ok")>>}

\* props.append_to(&mut args), props the default (field 0) or the default
\* with one field set
AppendTo ==
    /\ ncalls = 0
    /\ \E field \in 0..Len(FieldSettings), args \in ArgsBefore :
           LET props == IF field = 0 THEN DefaultProps
                        ELSE SetField(FieldSettings[field].path,
                                      FieldSettings[field].value)
           IN  last' = [op |-> "append_to",
                        in |-> [props |-> props, args |-> args, field |-> field],
                        out |-> NoOut, ret |-> GraphProps_append_to(props, args),
                        before |-> rrd_error]
    /\ ncalls' = ncalls + 1
    /\ UNCHANGED <<rrd_error, ffi>>
    /\ FacadeFrame

\* The orders in which a HashMap holding the entries S may iterate them
HashMapOrders(S) ==
    {o \in [1..Cardinality(S) -> S] : \A i, j \in DOMAIN o : o[i] = o[j] => i = j}

ColorEntries ==
    {<<"Back", [red |-> 255, green |-> 255, blue |-> 255, alpha |-> Unset]>>,
     <<"Canvas", [red |-> 0, green |-> 0, blue |-> 0, alpha |-> Some(128)]>>,
     <<"Axis", [red |-> 1, green |-> 2, blue |-> 3, alpha |-> Some(4)]>>}

FontEntries ==
    {<<"Title", [size |-> 12, font |-> "none"]>>,
     <<"Unit", [size |-> 11, font |-> "ok"]>>}

\* Two GraphProps built with the same colors and fonts, and an element, each
\* rendered into an empty list
RenderTwice ==
    /\ ncalls = 0
    /\ \E C \in SUBSET ColorEntries, F \in SUBSET FontEntries :
       \E ca \in HashMapOrders(C), cb \in HashMapOrders(C),
          fa \in HashMapOrders(F), fb \in HashMapOrders(F),
          c \in {[kind |-> "Def", q |-> "ok"], [kind |-> "Line", q |-> "ok"]} :
           LET a == [DefaultProps EXCEPT !.misc.colors = ca, !.misc.fonts = fa]
               b == [DefaultProps EXCEPT !.misc.colors = cb, !.misc.fonts = fb]
           IN  last' = [op |-> "render_twice",
                        in |-> [a |-> a, b |-> b, c |-> c],
                        out |-> NoOut,
                        ret |-> [a |-> GraphProps_append_to(a, <<>>),
                                 b |-> GraphProps_append_to(b, <<>>),
                                 c1 |-> GraphElement_append_to(c).args,
                                 c2 |-> GraphElement_append_to(c).args],
                        before |-> rrd_error]
    /\ ncalls' = ncalls + 1
    /\ UNCHANGED <<rrd_error, ffi>>
    /\ FacadeFrame

NextRender ==
    \/ AppendTo
    \/ RenderTwice

SpecRender == Init /\ [][NextRender]_vars

Entries(map) == {map[i] : i \in DOMAIN map}

\* a == b of two GraphProps: field by field, a HashMap by its entries
SameConfiguration(a, b) ==
    /\ \A g \in Groups \ {"misc"} : a[g] = b[g]
    /\ \A f \in DOMAIN a.misc \ {"colors", "fonts"} : a.misc[f] = b.misc[f]
    /\ Entries(a.misc.colors) = Entries(b.misc.colors)
    /\ Entries(a.misc.fonts) = Entries(b.misc.fonts)

\* C19: rendering the same GraphElement or GraphProps configuration twice
\* gives the same tokens both times, the order of the --color and of the
\* --font pairs included when Misc.colors or Misc.fonts hold more than one
\* entry.
C19_SameTokensTwice ==
    last.op = "render_twice" =>
        /\ last.ret.c1 = last.ret.c2
        /\ SameConfiguration(last.in.a, last.in.b) => last.ret.a = last.ret.b

\* C20: GraphProps::default() appends no token; with one field set, the
\* tokens appended are that field's own; and in every case the tokens that
\* were in the list stay as they were, ahead of what is appended.
C20_OnlyAppends ==
    last.op = "append_to" =>
        LET before == last.in.args
            after == last.ret
            n == Len(before)
        IN  /\ Len(after) >= n
            /\ SubSeq(after, 1, n) = before
            /\ last.in.props = DefaultProps => after = before
            /\ last.in.field > 0 =>
                   Texts(SubSeq(after, n + 1, Len(after)))
                       = FieldSettings[last.in.field].tokens

\* Only alt_autoscale set, with a minimum, onto a list that holds graphv and -
C20_Witness ==
    /\ last.op = "append_to"
    /\ last.in.field > 0
    /\ FieldSettings[last.in.field].path = <<"limits", "alt_autoscale">>
    /\ Len(last.in.args) = 2
    /\ Len(last.ret) = 5
    /\ last.ret[1].text = "graphv"
    /\ last.ret[4].text = "--alt-autoscale-min"

----------------------------------------------------------------------------
(* More properties of SpecUpdate *)

\* The field is a datum of a token: U, an integer or a float
IsDatumField(f) == f[1] \in {"U", "Int", "Float"}

\* The field is the time of a token: N, or the epoch seconds
IsTimeField(f) == f[1] \in {"N", "epoch"}

\* C21: every token update and update_all hand to the engine is a time field
\* (N for now, else the epoch seconds) followed by at least one datum (U, an
\* integer or a float), and there is one token per batch, in the caller's
\* order.
C21_TokenShape ==
    (last.op \in {"update", "update_all"} /\ EngineCalled) =>
        LET argv == ffi[1].argv
            data == last.in.data
        IN  /\ Len(argv) = Len(data)
            /\ \A i \in 1..Len(argv) :
                   /\ Len(argv[i]) >= 2
                   /\ IsTimeField(argv[i][1])
                   /\ argv[i][1] = TimeField(data[i].ts)
                   /\ \A j \in 2..Len(argv[i]) :
                          /\ IsDatumField(argv[i][j])
                          /\ argv[i][j] = DatumField(data[i].data[j - 1])

----------------------------------------------------------------------------
(* ops/update.rs: ExtraFlags, Options, LockingMode *)

\* a | b on non-negative integers
RECURSIVE BitOr(_, _)
BitOr(a, b) ==
    IF a = 0 THEN b
    ELSE IF b = 0 THEN a
    ELSE 2 * BitOr(a \div 2, b \div 2) + (IF a % 2 = 1 \/ b % 2 = 1 THEN 1 ELSE 0)

\* a << k
RECURSIVE Shl(_, _)
Shl(a, k) == IF k = 0 THEN a ELSE Shl(2 * a, k - 1)

\* bitflags! ExtraFlags: a set of the declared flags
SKIP_PAST_UPDATES == 1
ExtraFlagsValues == SUBSET {"SKIP_PAST_UPDATES"}
ExtraFlags_bits(flags) == IF "SKIP_PAST_UPDATES" \in flags THEN SKIP_PAST_UPDATES ELSE 0
ExtraFlags_contains(flags, other) == other \subseteq flags

LockingModes == {"DEFAULT", "NONE", "BLOCK", "TRY"}
OptionsValues == [skip_past_updates : BOOLEAN, locking_mode : LockingModes]

\* Options::bits with the locking mode not shifted
Options_bits_unshifted(self) ==
    LET bits == IF self.skip_past_updates THEN BitOr(0, 1) ELSE 0
    IN  BitOr(bits, CASE self.locking_mode = "DEFAULT" -> 0
                      [] self.locking_mode = "NONE" -> 1
                      [] self.locking_mode = "BLOCK" -> 2
                      [] self.locking_mode = "TRY" -> 3)

\* Options::bits
Options_bits(self) ==
    LET bits == IF self.skip_past_updates THEN BitOr(0, 1) ELSE 0
    IN  BitOr(bits, CASE self.locking_mode = "DEFAULT" -> 0
                      [] self.locking_mode = "NONE" -> Shl(1, 7)
                      [] self.locking_mode = "BLOCK" -> Shl(2, 7)
                      [] self.locking_mode = "TRY" -> Shl(3, 7))

\* impl From<ExtraFlags> for Options
Options_from(flags) ==
    [skip_past_updates |-> ExtraFlags_contains(flags, {"SKIP_PAST_UPDATES"}),
     locking_mode |-> "DEFAULT"]

----------------------------------------------------------------------------
(* ops/graph/mod.rs: Color::from_str *)

CharAt(str, i) == SubSeq(str, i, i)
Rest(str, n) == SubSeq(str, n + 1, Len(str))

LowerHexDigits == <<"a", "b", "c", "d", "e", "f">>

\* char::to_digit(16)
to_digit(c) ==
    IF \E d \in 0..15 : HexDigits[d + 1] = c
    THEN Some(CHOOSE d \in 0..15 : HexDigits[d + 1] = c)
    ELSE IF \E d \in 10..15 : LowerHexDigits[d - 9] = c
    THEN Some(CHOOSE d \in 10..15 : LowerHexDigits[d - 9] = c)
    ELSE Unset

\* parse_hex_byte: two characters, both hex digits, or an error that
\* consumes nothing
parse_hex_byte(input) ==
    IF Len(input) < 2 THEN [ok |-> FALSE, value |-> 0, rest |-> input]
    ELSE LET hi == to_digit(CharAt(input, 1))
             lo == to_digit(CharAt(input, 2))
         IN  IF Len(hi) = 0 \/ Len(lo) = 0
             THEN [ok |-> FALSE, value |-> 0, rest |-> input]
             ELSE [ok |-> TRUE, value |-> BitOr(Shl(hi[1], 4), lo[1]),
                   rest |-> Rest(input, 2)]

\* Color::from_str with whatever follows the channels left unread
Color_from_str_partial(str) ==
    LET red == parse_hex_byte(Rest(str, 1))
        green == parse_hex_byte(red.rest)
        blue == parse_hex_byte(green.rest)
        alpha == parse_hex_byte(blue.rest)
    IN  IF Len(str) < 1 \/ CharAt(str, 1) # "#" THEN InvalidArgument
        ELSE IF ~red.ok \/ ~green.ok \/ ~blue.ok THEN InvalidArgument
        ELSE [kind |-> "Ok", text |-> NULL,
              color |-> [red |-> red.value, green |-> green.value,
                         blue |-> blue.value,
                         alpha |-> IF alpha.ok THEN Some(alpha.value) ELSE Unset]]

\* Color::from_str: all_consuming(preceded(tag("#"), tuple((parse_hex_byte,
\* parse_hex_byte, parse_hex_byte, opt(parse_hex_byte))))), any error mapped
\* to InvalidArgument("Invalid color")
Color_from_str(str) ==
    LET red == parse_hex_byte(Rest(str, 1))
        green == parse_hex_byte(red.rest)
        blue == parse_hex_byte(green.rest)
        alpha == parse_hex_byte(blue.rest)
    IN  IF Len(str) < 1 \/ CharAt(str, 1) # "#" THEN InvalidArgument
        ELSE IF ~red.ok \/ ~green.ok \/ ~blue.ok THEN InvalidArgument
        ELSE IF Len(alpha.rest) # 0 THEN InvalidArgument
        ELSE [kind |-> "Ok", text |-> NULL,
              color |-> [red |-> red.value, green |-> green.value,
                         blue |-> blue.value,
                         alpha |-> IF alpha.ok THEN Some(alpha.value) ELSE Unset]]

----------------------------------------------------------------------------
(* ops/graph/elements.rs: VarName *)

Chars(str) == {CharAt(str, i) : i \in 1..Len(str)}

\* The class [A-Za-z0-9_-]
VNameClass ==
    Chars("ABCDEFGHIJKLMNOPQRSTUVWXYZ") \cup Chars("abcdefghijklmnopqrstuvwxyz")
        \cup Chars("0123456789") \cup {"_", "-"}

\* VALID_VNAME.is_match: ^[A-Za-z0-9_-]+$, where $ is the end of the text
VALID_VNAME_is_match(str) ==
    /\ Len(str) >= 1
    /\ \A i \in 1..Len(str) : CharAt(str, i) \in VNameClass

\* The characters in use that take two bytes in UTF-8
TwoByteChars == {"é"}

\* String::len: the length in bytes
RECURSIVE String_len(_)
String_len(str) ==
    IF Len(str) = 0 THEN 0
    ELSE IF Len(str) = 1 THEN (IF str \in TwoByteChars THEN 2 ELSE 1)
    ELSE String_len(SubSeq(str, 1, Len(str) \div 2))
             + String_len(Rest(str, Len(str) \div 2))

\* VarName::new without the limit on the length
VarName_new_unbounded(name) ==
    IF VALID_VNAME_is_match(name)
    THEN [kind |-> "Ok", text |-> NULL, name |-> name]
    ELSE InvalidArgument

VarName_new(name) ==
    IF String_len(name) <= 255 /\ VALID_VNAME_is_match(name)
    THEN [kind |-> "Ok", text |-> NULL, name |-> name]
    ELSE InvalidArgument

\* TryFrom<String> and TryFrom<&str>
VarName_try_from(value) == VarName_new(value)

----------------------------------------------------------------------------
(* ops/graph/props.rs: UnitsExponent *)

I8 == -128..127

\* The % of the signed integers: the remainder has the sign of the dividend
Rem(a, b) == IF a >= 0 THEN a % b ELSE -((-a) % b)

UnitsExponent_new(exp) ==
    IF exp \in -18..18 /\ Rem(exp, 3) = 0
    THEN [kind |-> "Ok", text |-> NULL, exp |-> exp]
    ELSE InvalidArgument

----------------------------------------------------------------------------
(* SpecValues: the constructors and conversions of the argument types,     *)
(* each called on its own                                                   *)

\* A call that touches neither the engine nor the error string
Evaluated(op, in, ret) ==
    /\ last' = [op |-> op, in |-> in, out |-> NoOut, ret |-> ret, before |-> rrd_error]
    /\ ncalls' = ncalls + 1
    /\ UNCHANGED <<rrd_error, ffi>>
    /\ FacadeFrame

OptionsBits ==
    /\ ncalls = 0
    /\ \E o \in OptionsValues : Evaluated("Options_bits", o, Options_bits(o))

OptionsFrom ==
    /\ ncalls = 0
    /\ \E f \in ExtraFlagsValues : Evaluated("Options_from", f, Options_from(f))

\* Strings to parse: a first character or none, then n characters taken from
\* a row of hex digits, the one at position bad (0: none) replaced
MaxDigits == 9
DigitRows ==
    {<<"0", "A", "9", "f", "1", "b", "7", "E", "3", "c">>,
     <<"F", "F", "0", "0", "a", "a", "8", "0", "d", "5">>}

RECURSIVE Digits(_, _, _, _)
Digits(row, n, bad, c) ==
    IF n = 0 THEN ""
    ELSE Digits(row, n - 1, bad, c) \o (IF n = bad THEN c ELSE row[n])

ColorFromStr ==
    /\ ncalls = 0
    /\ \E first \in {"#", "", "x"}, row \in DigitRows, n \in 0..MaxDigits,
          c \in {"g", "#", " "} :
       \E bad \in 0..n :
           LET str == first \o Digits(row, n, bad, c)
           IN  Evaluated("Color_from_str", str, Color_from_str(str))

Channels == {0, 16, 171, 255}
Colors ==
    [red : Channels, green : Channels, blue : Channels,
     alpha : {Unset} \cup {Some(a) : a \in Channels}]

\* color.append_to(&mut s) on an empty string, and the string parsed
ColorRoundTrip ==
    /\ ncalls = 0
    /\ \E color \in Colors :
           Evaluated("Color_round_trip", color,
                     Color_from_str(Color_append_to(color, "")))

RECURSIVE Repeat(_, _)
Repeat(c, n) ==
    IF n = 0 THEN ""
    ELSE LET half == Repeat(c, n \div 2)
         IN  half \o half \o (IF n % 2 = 1 THEN c ELSE "")

\* Names of n characters c, the one at position at (0: none) replaced by d
NameLengths == {0, 1, 2, 127, 128, 254, 255, 256}
NameOf(c, n, at, d) ==
    IF at = 0 THEN Repeat(c, n)
    ELSE Repeat(c, at - 1) \o d \o Repeat(c, n - at)

VarNameNew ==
    /\ ncalls = 0
    /\ \E c \in {"a", "Z", "0", "_", "-"}, n \in NameLengths,
          d \in {"@", " ", "\n", ".", "é", "q"},
          via \in {"new", "try_from_string", "try_from_str"} :
       \E at \in {0, 1, n} \cap 0..n :
           LET name == NameOf(c, n, at, d)
           IN  Evaluated("VarName_new", [via |-> via, name |-> name],
                         IF via = "new" THEN VarName_new(name)
                         ELSE VarName_try_from(name))

UnitsExponentNew ==
    /\ ncalls = 0
    /\ \E exp \in I8 :
           Evaluated("UnitsExponent_new", exp, UnitsExponent_new(exp))

NextValues ==
    \/ OptionsBits
    \/ UnitsExponentNew
    \/ VarNameNew
    \/ OptionsFrom
    \/ ColorFromStr
    \/ ColorRoundTrip

SpecValues == Init /\ [][NextValues]_vars

LockingModeNumber(mode) ==
    CASE mode = "DEFAULT" -> 0 [] mode = "NONE" -> 1 [] mode = "BLOCK" -> 2 [] mode = "TRY" -> 3

\* C22: bits() has bit 0 set exactly when skip_past_updates is set and holds
\* the locking mode as 0 (DEFAULT), 1 (NONE), 2 (BLOCK) or 3 (TRY) in bits
\* above bit 0, so that distinct Options give distinct words; Options::from(f)
\* has locking mode DEFAULT and the bits of f.
C22_OptionsBits ==
    /\ last.op = "Options_bits" =>
           /\ (last.ret % 2 = 1) <=> last.in.skip_past_updates
           /\ \E k \in 1..30 :
                  /\ (last.ret \div 2) % Shl(1, k - 1) = 0
                  /\ last.ret \div Shl(1, k) = LockingModeNumber(last.in.locking_mode)
           /\ \A o \in OptionsValues : Options_bits(o) = last.ret => o = last.in
    /\ last.op = "Options_from" =>
           /\ last.ret.locking_mode = "DEFAULT"
           /\ Options_bits(last.ret) = ExtraFlags_bits(last.in)

\* TRY with skip_past_updates: 3 << 7 | 1
C22_Witness ==
    /\ last.op = "Options_bits"
    /\ last.in = [skip_past_updates |-> TRUE, locking_mode |-> "TRY"]
    /\ last.ret = 385

HexChars ==
    {"0", "1", "2", "3", "4", "5", "6", "7", "8", "9",
     "a", "b", "c", "d", "e", "f", "A", "B", "C", "D", "E", "F"}

\* # followed by 6 or 8 hex digits
WellFormedColor(str) ==
    /\ Len(str) \in {7, 9}
    /\ CharAt(str, 1) = "#"
    /\ \A i \in 2..Len(str) : CharAt(str, i) \in HexChars

\* The value of the two hex digits at i and i + 1
ByteAt(str, i) == 16 * to_digit(CharAt(str, i))[1] + to_digit(CharAt(str, i + 1))[1]

\* C23: parsing a Color succeeds exactly for # followed by 6 or 8 hex
\* digits, two digits per channel, alpha set only in the 8-digit form; every
\* other string is rejected; rendering a Color and parsing the result gives
\* the Color back.
C23_ColorParse ==
    /\ last.op = "Color_from_str" =>
           /\ last.ret.kind = "Ok" <=> WellFormedColor(last.in)
           /\ ~WellFormedColor(last.in) => last.ret = InvalidArgument
           /\ WellFormedColor(last.in) =>
                  /\ last.ret.color.red = ByteAt(last.in, 2)
                  /\ last.ret.color.green = ByteAt(last.in, 4)
                  /\ last.ret.color.blue = ByteAt(last.in, 6)
                  /\ last.ret.color.alpha =
                         IF Len(last.in) = 9 THEN Some(ByteAt(last.in, 8)) ELSE Unset
    /\ last.op = "Color_round_trip" =>
           /\ last.ret.kind = "Ok"
           /\ last.ret.color = last.in

\* An eight-digit string parsed, alpha included
C23_Witness ==
    /\ last.op = "Color_from_str"
    /\ last.in = "#FF00aa80"
    /\ last.ret.kind = "Ok"
    /\ last.ret.color = [red |-> 255, green |-> 0, blue |-> 170, alpha |-> Some(128)]

\* C24: VarName::new, and both TryFrom conversions, succeed exactly for
\* names of 1 to 255 characters that are all ASCII letters, digits, '_' or
\* '-'; the empty name, a name of 256 characters and a name with any other
\* character are rejected with InvalidArgument.
C24_VarNameValid ==
    last.op = "VarName_new" =>
        LET name == last.in.name
            valid == /\ Len(name) \in 1..255
                     /\ Chars(name) \subseteq VNameClass
        IN  /\ valid => last.ret = [kind |-> "Ok", text |-> NULL, name |-> name]
            /\ ~valid => last.ret = InvalidArgument

\* A name of 256 valid characters is rejected by a conversion
C24_Witness ==
    /\ last.op = "VarName_new"
    /\ last.in.via = "try_from_str"
    /\ Len(last.in.name) = 256
    /\ Chars(last.in.name) = {"a"}
    /\ last.ret = InvalidArgument

\* A name of 255 valid characters is accepted
C24_WitnessLongest ==
    /\ last.op = "VarName_new"
    /\ Len(last.in.name) = 255
    /\ last.ret.kind = "Ok"

\* C25: UnitsExponent::new(exp) succeeds exactly when exp is a multiple of 3
\* in [-18, 8], and returns InvalidArgument otherwise.
C25_UnitsExponent ==
    last.op = "UnitsExponent_new" =>
        LET valid == /\ last.in \in -18..8
                     /\ \E k \in -6..2 : last.in = 3 * k
        IN  /\ valid => last.ret = [kind |-> "Ok", text |-> NULL, exp |-> last.in]
            /\ ~valid => last.ret = InvalidArgument

----------------------------------------------------------------------------
(* lib.rs: info, one turn of its loop at a time *)

\* format!("{:.2}", value) of a whole number, and format!("{}", value)
FmtF64_2(n) == ToString(n) \o ".00"

\* The String a turn inserts for a node, by the arm of the match taken
RootInfoValue(node, arm) ==
    CASE arm = "RD_I_VAL" -> <<"text", FmtF64_2(node.value[2])>>
      [] arm = "RD_I_CNT" -> <<"text", ToString(node.value[2])>>
      [] arm = "RD_I_STR" -> <<"lossy", node.value[2]>>
      [] arm = "RD_I_INT" -> <<"text", ToString(node.value[2])>>

\* The arms the match on a node's tag can take: a tag that is none of the
\* enum's values is undefined behaviour
RootInfoArms(node) ==
    IF node.type \in KnownTags THEN {node.type} ELSE KnownTags \cup {"crash"}

\* CString::new(filename).expect(..), rrd_info_r, and the cursor on the result
root_info_start(filename, out, m) ==
    IF CString_new(filename) # Ok
    THEN [nodes |-> <<>>, current |-> NULL, dict |-> <<>>, m |-> m, status |-> "panicked"]
    ELSE [nodes |-> out.nodes,
          current |-> IF out.rc = 0 THEN ListHead ELSE NULL,
          dict |-> <<>>,
          m |-> EnginePtrEntry(m, "rrd_info_r", <<>>, out, 1),
          status |-> "walk"]

\* A turn of the while loop: past the last node the dict is returned; a blob
\* node goes back to the loop's test with the cursor where it was; any other
\* node is inserted and the cursor follows next
root_info_turn(w, arm) ==
    IF w.current = NULL THEN [w EXCEPT !.status = "returned"]
    ELSE LET node == w.nodes[w.current]
         IN  IF arm = "crash" THEN [w EXCEPT !.status = "crashed"]
             ELSE IF arm = "RD_I_BLO" THEN w
             ELSE [w EXCEPT !.dict = (node.key :> RootInfoValue(node, arm)) @@ w.dict,
                            !.current = NextPtr(w.nodes, w.current)]

RootInfoStart ==
    /\ walk = NoWalk
    /\ \E filename \in StrQ, n \in 1..MaxNodes :
           \E ks \in [1..n -> InfoKeys], ts \in [1..n -> InfoTags] :
               \E out \in InfoOutcomes({InfoList(n, ks, ts)}) :
                   walk' = root_info_start(filename, out,
                                           [err |-> rrd_error, ffi |-> <<>>])
    /\ ffi' = walk'.m.ffi
    /\ rrd_error' = walk'.m.err
    /\ UNCHANGED <<ncalls, last, fetchVars, threadVars, stringVars, dataVars>>

RootInfoTurn ==
    /\ walk.status = "walk"
    /\ \E arm \in IF walk.current = NULL THEN {"none"}
                  ELSE RootInfoArms(walk.nodes[walk.current]) :
           walk' = root_info_turn(walk, arm)
    /\ UNCHANGED <<rrd_error, ffi, ncalls, last, fetchVars, threadVars, stringVars,
                   dataVars>>

NextRootInfo ==
    \/ RootInfoStart
    \/ RootInfoTurn

\* The loop keeps taking turns while it can
SpecRootInfo == Init /\ [][NextRootInfo]_vars /\ WF_vars(RootInfoTurn)

\* The positions of the records that are not blobs
NonBlob(nodes) == {i \in 1..Len(nodes) : nodes[i].type # "RD_I_BLO"}

\* C26: the crate-root info terminates for every finite record list the
\* engine returns, and the map it returns has an entry for every record that
\* is not a blob and none for a key that only blob records carry.
C26_RootInfoTerminates ==
    /\ (walk.status = "walk") ~> (walk.status # "walk")
    /\ [](walk.status = "returned" /\ (\A i \in 1..Len(walk.nodes) :
                                           walk.nodes[i].type \in KnownTags) =>
              DOMAIN walk.dict = {walk.nodes[i].key : i \in NonBlob(walk.nodes)})

----------------------------------------------------------------------------
(* SpecElements: graph over every list of up to MaxElements elements        *)

MaxElements == 2
ElementKinds ==
    {"Def", "CDef", "VDef", "Print", "GPrint", "Comment", "VRule", "HRule", "Line",
     "Area", "Tick", "Shift", "TextAlign"}

GraphWithElements ==
    /\ ncalls = 0
    /\ Graph({[AGraph EXCEPT !.elements = els] :
                  els \in SeqsUpTo({[kind |-> k, q |-> "ok"] : k \in ElementKinds},
                                   MaxElements)},
             {AGraphList})

NextElements == GraphWithElements

SpecElements == Init /\ [][NextElements]_vars

KindsOf(elements) == {elements[i].kind : i \in 1..Len(elements)}

\* C27: graph returns InvalidArgument, with no engine call, for a list of
\* elements without a Def, and likewise for a list with none of Print,
\* GPrint, Line and Area; the test for the Def is made first, so that the
\* empty list gives the error about the missing Def.
C27_ElementChecks ==
    last.op = "graph" =>
        LET kinds == KindsOf(last.in.elements)
        IN  /\ "Def" \notin kinds =>
                   /\ last.ret = NoDefError
                   /\ ffi = <<>>
            /\ ("Def" \in kinds /\ kinds \cap {"Print", "GPrint", "Line", "Area"} = {}) =>
                   /\ last.ret = NoVisualError
                   /\ ffi = <<>>
            /\ last.ret \in {NoDefError, NoVisualError} =>
                   \/ "Def" \notin kinds
                   \/ kinds \cap {"Print", "GPrint", "Line", "Area"} = {}

\* The empty list is refused for its missing Def
C27_Witness ==
    /\ last.op = "graph"
    /\ last.in.elements = <<>>
    /\ last.ret = NoDefError
    /\ ffi = <<>>

\* A Def and a CDef are refused for the missing visual element
C27_WitnessNoVisual ==
    /\ last.op = "graph"
    /\ KindsOf(last.in.elements) = {"Def", "CDef"}
    /\ last.ret = NoVisualError
    /\ ffi = <<>>

----------------------------------------------------------------------------
(* Properties of SpecUpdate: the expected number of data points *)

\* A batch whose number of data points is not n
Mismatch(data, n) == \E i \in 1..Len(data) : Len(data[i].data) # n

\* The filename, and for update the names, have a C string
Converts(in) ==
    /\ ~BadPath(in.filename)
    /\ "ds_names" \in DOMAIN in => ~HasNul(in.ds_names)

\* C28 as stated: update returns InvalidArgument, before any engine call, for
\* any batch whose number of data points differs from ds_names.len(), the
\* first batch included; update_all takes the length of the first batch as
\* the length every later batch must match.
C28_AsStated ==
    /\ (last.op = "update" /\ Mismatch(last.in.data, Len(last.in.ds_names))) =>
           /\ last.ret = InvalidArgument
           /\ ~EngineCalled
    /\ (last.op = "update_all" /\ last.in.data # <<>>
            /\ Mismatch(last.in.data, Len(last.in.data[1].data))) =>
           /\ last.ret = InvalidArgument
           /\ ~EngineCalled

\* C28: a batch of update whose number of data points differs from
\* ds_names.len(), the first batch included, keeps the engine from being
\* called, and the call returns InvalidArgument when the filename and the
\* names have a C string; update_all does the same with the length of its
\* first batch, so that a first batch of any length is accepted.
C28_ExpectedLength ==
    /\ last.op = "update" =>
           LET in == last.in
           IN  /\ Mismatch(in.data, Len(in.ds_names)) =>
                      /\ ~EngineCalled
                      /\ Converts(in) => last.ret = InvalidArgument
               /\ (~Mismatch(in.data, Len(in.ds_names)) /\ Converts(in)) => EngineCalled
    /\ (last.op = "update_all" /\ last.in.data # <<>>) =>
           LET in == last.in
               first == Len(in.data[1].data)
           IN  /\ Mismatch(in.data, first) =>
                      /\ ~EngineCalled
                      /\ Converts(in) => last.ret = InvalidArgument
               /\ (~Mismatch(in.data, first) /\ Converts(in)) => EngineCalled

\* update refused a first batch of two data points for one name
C28_Witness ==
    /\ last.op = "update"
    /\ last.in.filename = "ok"
    /\ last.in.ds_names = <<"ok">>
    /\ Len(last.in.data) = 1
    /\ Len(last.in.data[1].data) = 2
    /\ last.ret = InvalidArgument
    /\ ffi = <<>>

----------------------------------------------------------------------------
(* Properties of SpecData: the size a RowsIter reports *)

\* The rows the iterator has not yet yielded
RowsLeft == Data_row_count(dat.ret) - Len(iter.yielded)

\* C29: at every point of an iteration the size RowsIter reports, with
\* size_hint and with len, is the number of rows it has not yet yielded: the
\* row count before the first next(), the row count less k after k calls, 0
\* once exhausted.
C29_SizeIsRowsLeft ==
    iter.state \in {"running", "ended"} =>
        /\ RowsIter_size_hint(iter.it) = <<RowsLeft, Some(RowsLeft)>>
        /\ RowsIter_len(iter.it) = [kind |-> "Ok", text |-> NULL, len |-> RowsLeft]
        /\ iter.state = "ended" => RowsIter_len(iter.it).len = 0

----------------------------------------------------------------------------
(* Properties of SpecStrings: a construction that fails *)

\* C30: when new returns an error because a string holds a NUL, every C
\* string it had allocated for the strings before that one has been
\* released: no allocation is left without an owner.
C30_NoLeakOnFailure ==
    arr.state = "failed" =>
        /\ arr.ret = NulError
        /\ live = {}

====
